---- MODULE Spec2Model ----
(***************************************************************************)
(* EchoDJ emotional-journey playlist sequencer.                            *)
(*                                                                         *)
(* Model of echo_dj/mood_router/emotional_routing.py (EmotionalPoint,      *)
(* MoodRoute, MoodRouter) and echo_dj/playlist_engine/dynamic_playlist.py  *)
(* (PlaylistGenerationEngine).                                             *)
(*                                                                         *)
(* Numbers.  Python floats are modelled in fixed point: an emotional       *)
(* value v is the integer v * Unit, a timestamp t is the integer           *)
(* t * TimeUnit.  Unit and TimeUnit are chosen so that every value the     *)
(* code computes from the inputs enumerated below (multiples of 0.1,       *)
(* progress fractions i/(n+1) with n+1 <= 6) is an integer.                *)
(* Python dicts are functions with a partial domain, dict.get is Get.      *)
(* A Python value whose type matters is a tagged record: [int |-> 3] is    *)
(* the int 3, [str |-> "high"] the string "high", [none |-> TRUE] is None. *)
(***************************************************************************)
EXTENDS Integers, Sequences, FiniteSets, TLC

VARIABLES
    playlist_cache,   \* PlaylistGenerationEngine.playlist_cache: id -> DynamicPlaylist
    next_uuid,        \* number of uuid4() identifiers handed out so far
    now,              \* datetime.utcnow(), a logical clock
    route,            \* the MoodRoute held by a caller of MoodRouter
    probe,            \* the result of the caller's last get_emotional_at
    lastOp,           \* the last call: its name, its arguments and its outcome
    tasks             \* the adapt_playlist calls scheduled on the event loop

vars == <<playlist_cache, next_uuid, now, route, probe, lastOp, tasks>>

-----------------------------------------------------------------------------
(* Fixed point                                                             *)

Unit == 12 * 100
TimeUnit == 6 * 10
Tenths(n) == n * (Unit \div 10)

Min(a, b) == IF a < b THEN a ELSE b
Max(a, b) == IF a > b THEN a ELSE b
Abs(a) == IF a < 0 THEN 0 - a ELSE a

RECURSIVE SqrtSearch(_, _, _)
SqrtSearch(x, lo, hi) ==
    IF lo >= hi THEN lo
    ELSE LET mid == (lo + hi + 1) \div 2
         IN  IF mid * mid <= x THEN SqrtSearch(x, mid, hi)
                               ELSE SqrtSearch(x, lo, mid - 1)

\* np.sqrt on a value in Unit^2, result in Unit (rounded down)
ISqrt(x) == SqrtSearch(x, 0, 8 * Unit)

\* dict.get(key, default)
Get(d, k, default) == IF k \in DOMAIN d THEN d[k] ELSE default

NoneValue == [none |-> TRUE]
IsNone(x) == "none" \in DOMAIN x

\* a Python list built by a comprehension or a loop: its elements are computed once
list(s) == s \o <<>>

RECURSIVE SumSeq(_)
SumSeq(s) == IF s = <<>> THEN 0 ELSE Head(s) + SumSeq(Tail(s))

-----------------------------------------------------------------------------
(* EmotionalPoint, MoodRoute                                               *)

EmotionalArcValues ==
    {"ascending", "descending", "wavy", "stable", "resolution", "transformation"}

TransitionStyleValues == {"smooth", "stepwise", "contrast", "bridge", "surprise"}

EmotionalPoint(ts, v, a, d, dp, r) ==
    [timestamp |-> ts, valence |-> v, arousal |-> a, dominance |-> d,
     depth |-> dp, resonance |-> r]

EmotionalFields == {"valence", "arousal", "dominance", "depth", "resonance"}

\* a distance that counts resonance as a fifth dimension
distance_to_with_resonance(p, q) ==
    ISqrt((p.valence - q.valence) * (p.valence - q.valence)
          + (p.arousal - q.arousal) * (p.arousal - q.arousal)
          + (p.dominance - q.dominance) * (p.dominance - q.dominance)
          + (p.depth - q.depth) * (p.depth - q.depth)
          + (p.resonance - q.resonance) * (p.resonance - q.resonance))

\* EmotionalPoint.distance_to, in Unit
distance_to(p, q) ==
    ISqrt((p.valence - q.valence) * (p.valence - q.valence)
          + (p.arousal - q.arousal) * (p.arousal - q.arousal)
          + (p.dominance - q.dominance) * (p.dominance - q.dominance)
          + (p.depth - q.depth) * (p.depth - q.depth))

MoodRoute(sp, ep, wps, arc, style, dur, impact) ==
    [start_point |-> sp, end_point |-> ep, waypoints |-> wps, arc_type |-> arc,
     transition_style |-> style, total_duration |-> dur, estimated_impact |-> impact]

\* index of the first waypoint whose timestamp is above t, 0 when there is none:
\* the waypoint at which the scan of get_emotional_at breaks
FirstAfter(wps, t) ==
    LET later == {j \in 1..Len(wps) : wps[j].timestamp > t}
    IN  IF later = {} THEN 0 ELSE CHOOSE j \in later : \A k \in later : j <= k

\* the interpolation of get_emotional_at between the waypoints around t
interpolate_at(r, t) ==
    LET wps    == r.waypoints
        idx    == FirstAfter(wps, t)
        before == IF idx = 0
                  THEN (IF Len(wps) = 0 THEN r.start_point ELSE wps[Len(wps)])
                  ELSE (IF idx = 1 THEN r.start_point ELSE wps[idx - 1])
        after  == IF idx = 0 THEN r.end_point ELSE wps[idx]
        den    == after.timestamp - before.timestamp
        num    == t - before.timestamp
        Lerp(f) == before[f] + (num * (after[f] - before[f])) \div den
    IN  IF before.timestamp = after.timestamp THEN before
        ELSE EmotionalPoint(t, Lerp("valence"), Lerp("arousal"), Lerp("dominance"),
                            Lerp("depth"), Lerp("resonance"))

\* MoodRoute.get_emotional_at
get_emotional_at(r, t) ==
    IF Len(r.waypoints) = 0 THEN r.start_point
    ELSE interpolate_at(r, t)

-----------------------------------------------------------------------------
(* Float rounding at the classification thresholds                         *)
(*                                                                         *)
(* _determine_arc_type compares end - start with the literals 0.1, 0.2 and *)
(* 0.3.  When the exact difference is one of these, the IEEE-754 double    *)
(* difference is above or below the literal depending on the operands.     *)
(* The two tables list, for the start values the inputs below use and in   *)
(* tenths, the <<start, end>> pairs whose double difference has a larger   *)
(* (RoundedUp) or a smaller (RoundedDown) magnitude than the literal.  An  *)
(* end value is the double the code holds: 0.2 + 0.1 for <<2, 3>>, the     *)
(* literal or the caller's value elsewhere.                                *)

RoundedUp ==
    {
     <<-10, -13>>, <<-10, -11>>, <<-10, -7>>, <<-5, -8>>, <<2, -1>>, <<2, 3>>, <<3, 4>>,
     <<5, 8>>, <<6, 8>>, <<6, 9>>, <<9, 6>>, <<9, 7>>, <<9, 11>>, <<10, 7>>,
     <<10, 11>>, <<10, 13>>, <<20, 17>>, <<20, 19>>, <<20, 21>>, <<20, 22>>
    }

RoundedDown ==
    {
     <<-10, -12>>, <<-10, -9>>, <<-10, -8>>, <<-5, -7>>, <<-5, -6>>, <<-5, -4>>,
     <<3, 1>>, <<3, 2>>, <<5, 4>>, <<5, 6>>, <<5, 7>>, <<6, 4>>, <<6, 5>>,
     <<6, 7>>, <<9, 8>>, <<9, 10>>, <<9, 12>>, <<10, 8>>, <<10, 9>>, <<10, 12>>,
     <<20, 18>>, <<20, 23>>
    }

InTenths(s, e) == <<s \div Tenths(1), e \div Tenths(1)>>

\* (e - s) > k/10 evaluated in doubles
FloatDiffAbove(e, s, k) ==
    \/ e - s > Tenths(k)
    \/ e - s = Tenths(k) /\ InTenths(s, e) \in RoundedUp

\* (e - s) < -k/10 evaluated in doubles
FloatDiffBelow(e, s, k) ==
    \/ e - s < 0 - Tenths(k)
    \/ e - s = 0 - Tenths(k) /\ InTenths(s, e) \in RoundedUp

\* abs(e - s) < k/10 evaluated in doubles
FloatAbsDiffUnder(e, s, k) ==
    \/ Abs(e - s) < Tenths(k)
    \/ Abs(e - s) = Tenths(k) /\ InTenths(s, e) \in RoundedDown

-----------------------------------------------------------------------------
(* MoodRouter                                                              *)

NeutralPoint(ts) ==
    EmotionalPoint(ts, Tenths(6), Tenths(5), Tenths(6), Tenths(5), Tenths(7))

\* _create_safe_route with the hour of the engine's fallback route instead of the
\* requested duration
_create_safe_route_hour(duration_minutes) ==
    MoodRoute(NeutralPoint(0), NeutralPoint(TimeUnit), <<>>, "stable", "smooth",
              60, Tenths(5))

\* MoodRouter._create_safe_route
_create_safe_route(duration_minutes) ==
    MoodRoute(NeutralPoint(0), NeutralPoint(TimeUnit), <<>>, "stable", "smooth",
              duration_minutes, Tenths(5))

\* MoodRouter._generate_meaningful_endpoint
_generate_meaningful_endpoint(sp, preferences) ==
    LET journey_type == Get(preferences, "journey_type", "exploratory")
    IN  IF journey_type = "energizing" THEN
            EmotionalPoint(TimeUnit,
                           Min(Tenths(9), sp.valence + Tenths(2)),
                           Min(Tenths(9), sp.arousal + Tenths(3)),
                           Max(Tenths(6), sp.dominance + Tenths(1)),
                           sp.depth,
                           Min(Tenths(9), sp.resonance + Tenths(1)))
        ELSE IF journey_type = "calming" THEN
            EmotionalPoint(TimeUnit,
                           Max(Tenths(6), sp.valence + Tenths(1)),
                           Max(Tenths(2), sp.arousal - Tenths(3)),
                           Max(Tenths(4), sp.dominance - Tenths(1)),
                           Max(Tenths(6), sp.depth + Tenths(1)),
                           Max(Tenths(8), sp.resonance + Tenths(1)))
        ELSE IF journey_type = "exploratory" THEN
            EmotionalPoint(TimeUnit,
                           IF sp.valence < Tenths(5) THEN Tenths(7) ELSE Tenths(4),
                           IF sp.arousal < Tenths(5) THEN Tenths(6) ELSE Tenths(4),
                           Tenths(6),
                           Max(Tenths(7), sp.depth + Tenths(2)),
                           Max(Tenths(8), sp.resonance + Tenths(1)))
        ELSE
            EmotionalPoint(TimeUnit,
                           Min(Tenths(8), sp.valence + Tenths(1)),
                           sp.arousal,
                           sp.dominance,
                           Max(Tenths(6), sp.depth + Tenths(1)),
                           Max(Tenths(8), sp.resonance + Tenths(1)))

\* MoodRouter._determine_arc_type
_determine_arc_type(sp, ep, preferences) ==
    LET preferred_arc == Get(preferences, "emotional_arc", "")
        sv == sp.valence
        ev == ep.valence
        sa == sp.arousal
        ea == ep.arousal
    IN  IF preferred_arc \in EmotionalArcValues THEN preferred_arc
        ELSE IF FloatDiffAbove(ev, sv, 3) /\ FloatDiffAbove(ea, sa, 2) THEN "ascending"
        ELSE IF FloatDiffBelow(ev, sv, 3) /\ FloatDiffBelow(ea, sa, 2) THEN "descending"
        ELSE IF FloatAbsDiffUnder(ev, sv, 1) /\ FloatAbsDiffUnder(ea, sa, 1) THEN "stable"
        ELSE IF FloatDiffAbove(ev, sv, 3) \/ FloatDiffAbove(ea, sa, 3) THEN "resolution"
        ELSE "wavy"

\* sin(2 * pi * k / m) * Unit / 10 for m <= 6: the values 0.1 * np.sin takes here
SineTenth(k, m) ==
    LET q == k % m
    IN  IF m = 3 THEN (IF q = 1 THEN 104 ELSE IF q = 2 THEN 0 - 104 ELSE 0)
        ELSE IF m = 4 THEN (IF q = 1 THEN 120 ELSE IF q = 3 THEN 0 - 120 ELSE 0)
        ELSE IF m = 5 THEN (IF q = 1 THEN 114 ELSE IF q = 2 THEN 71
                            ELSE IF q = 3 THEN 0 - 71 ELSE IF q = 4 THEN 0 - 114 ELSE 0)
        ELSE IF m = 6 THEN (IF q \in {1, 2} THEN 104 ELSE IF q \in {4, 5} THEN 0 - 104 ELSE 0)
        ELSE 0

\* 0.1 * np.sin(progress * 4 * np.pi) at progress = i / (n + 1)
wave_offset(i, n) == SineTenth(2 * i, n + 1)

\* the value as computed, whatever the range
Unclamped(lo, hi, v) == v

Clamp(lo, hi, v) == Max(lo, Min(hi, v))

\* preferences.get("complexity", 3) is usable by range(): it is an int
ComplexityIsInt(preferences) == "int" \in DOMAIN Get(preferences, "complexity", [int |-> 3])

\* MoodRouter._create_waypoints, for an int complexity
_create_waypoints(sp, ep, arc_type, preferences) ==
    LET num_waypoints == Get(preferences, "complexity", [int |-> 3]).int
        Along(f, i) == sp[f] + (i * (ep[f] - sp[f])) \div (num_waypoints + 1)
        Wave(i) == IF arc_type = "wavy" THEN wave_offset(i, num_waypoints) ELSE 0
        Waypoint(i) ==
            EmotionalPoint((i * TimeUnit) \div (num_waypoints + 1),
                           Clamp(0 - Unit, Unit, Along("valence", i) + Wave(i)),
                           Clamp(0, Unit, Along("arousal", i) + Wave(i)),
                           Clamp(0, Unit, Along("dominance", i)),
                           Clamp(0, Unit, Along("depth", i)),
                           Clamp(0, Unit, Along("resonance", i)))
    IN  list([i \in 1..Max(0, num_waypoints) |-> Waypoint(i)])

\* a transition style taken from the clock instead of the preferences
_determine_transition_style_by_the_clock(preferences) ==
    IF now % 2 = 0 THEN "smooth" ELSE "surprise"

\* MoodRouter._determine_transition_style
_determine_transition_style(preferences) ==
    LET preferred_style == Get(preferences, "transition_style", "")
        experience_level == Get(preferences, "experience_level", "intermediate")
    IN  IF preferred_style \in TransitionStyleValues THEN preferred_style
        ELSE IF experience_level = "beginner" THEN "smooth"
        ELSE IF experience_level = "advanced" THEN "contrast"
        ELSE "stepwise"

\* MoodRouter._calculate_estimated_impact
_calculate_estimated_impact(sp, ep, waypoints) ==
    IF Len(waypoints) = 0 THEN Tenths(5)
    ELSE LET n == Len(waypoints)
             chain == <<sp>> \o waypoints \o <<ep>>
             total_distance == SumSeq([j \in 1..(n + 1) |-> distance_to(chain[j], chain[j + 1])])
             avg_distance == total_distance \div (n + 1)
             avg_resonance == SumSeq([j \in 1..(n + 2) |-> chain[j].resonance]) \div (n + 2)
         IN  Min(Unit, (avg_distance * 6 + avg_resonance * 4) \div 10)

\* the start point built from user_emotion (create_emotional_route, lines 199-206)
start_point_of(user_emotion) ==
    EmotionalPoint(0,
                   Get(user_emotion, "valence", Tenths(5)),
                   Get(user_emotion, "arousal", Tenths(5)),
                   Get(user_emotion, "dominance", Tenths(5)),
                   Get(user_emotion, "depth", Tenths(5)),
                   Get(user_emotion, "resonance", Tenths(7)))

\* the end point built from a target_emotion (create_emotional_route, lines 210-217)
end_point_of(target_emotion) ==
    EmotionalPoint(TimeUnit,
                   Get(target_emotion, "valence", Tenths(6)),
                   Get(target_emotion, "arousal", Tenths(6)),
                   Get(target_emotion, "dominance", Tenths(6)),
                   Get(target_emotion, "depth", Tenths(6)),
                   Get(target_emotion, "resonance", Tenths(8)))

\* The answers of the ethics evaluator (EthicalAI.evaluate_action), the
\* collaborator both classes call first: it permits, it rejects, or it raises.
GateAnswers == {"permitted", "rejected", "raised"}

\* an exception is raised inside the try block of create_emotional_route
route_construction_raises(preferences, gate) ==
    \/ gate = "raised"
    \/ gate = "permitted" /\ ~ComplexityIsInt(preferences)

\* MoodRouter.create_emotional_route.  target_emotion is <<>> for None and for {}.
create_emotional_route(user_emotion, target_emotion, duration_minutes, preferences, gate) ==
    IF gate = "rejected" THEN _create_safe_route(duration_minutes)
    ELSE IF route_construction_raises(preferences, gate) THEN _create_safe_route(duration_minutes)
    ELSE LET with_waypoints(sp, ep, arc_type, waypoints) ==
                 MoodRoute(sp, ep, waypoints, arc_type,
                           _determine_transition_style(preferences), duration_minutes,
                           _calculate_estimated_impact(sp, ep, waypoints))
             with_arc(sp, ep, arc_type) ==
                 with_waypoints(sp, ep, arc_type,
                                _create_waypoints(sp, ep, arc_type, preferences))
             with_end(sp, ep) == with_arc(sp, ep, _determine_arc_type(sp, ep, preferences))
             with_start(sp) ==
                 with_end(sp, IF DOMAIN target_emotion # {}
                              THEN end_point_of(target_emotion)
                              ELSE _generate_meaningful_endpoint(sp, preferences))
         IN  with_start(start_point_of(user_emotion))

-----------------------------------------------------------------------------
(* PlaylistGenerationEngine: tracks                                        *)

\* scores (dimensionless floats in the code) are held in 1/ScoreScale
ScoreScale == 10 * 1000

\* _create_playlist_track reading the id under a key no catalog dict has, so that
\* every track takes the same default
_create_playlist_track_same_id(track_data) ==
    [id |-> Get(track_data, "track_id", 0),
     title |-> Get(track_data, "name", "Unknown Track"),
     artist |-> Get(track_data, "artist", "Unknown Artist"),
     duration |-> Get(track_data, "duration_ms", 180000) \div 1000,
     emotional_profile |->
         EmotionalPoint(0,
                        Get(track_data, "valence", Tenths(5)),
                        Get(track_data, "energy", Tenths(5)),
                        Get(track_data, "dominance", Tenths(5)),
                        Get(track_data, "depth", Tenths(5)),
                        Get(track_data, "popularity", Tenths(5))),
     transition_notes |-> ""]

\* PlaylistGenerationEngine._create_playlist_track (the catalogs below give every
\* track an id, so the uuid4 default of a missing id is never taken)
_create_playlist_track(track_data) ==
    [id |-> Get(track_data, "id", 0),
     title |-> Get(track_data, "name", "Unknown Track"),
     artist |-> Get(track_data, "artist", "Unknown Artist"),
     duration |-> Get(track_data, "duration_ms", 180000) \div 1000,
     emotional_profile |->
         EmotionalPoint(0,
                        Get(track_data, "valence", Tenths(5)),
                        Get(track_data, "energy", Tenths(5)),
                        Get(track_data, "dominance", Tenths(5)),
                        Get(track_data, "depth", Tenths(5)),
                        Get(track_data, "popularity", Tenths(5))),
     transition_notes |-> ""]

\* track_data supports .get: it is a catalog dict, not a PlaylistTrack dataclass
IsMapping(track_data) == "emotional_profile" \notin DOMAIN track_data

\* the score of one track in _find_tracks_for_emotion (lines 259-267)
track_score(track, target_emotion, preferences) ==
    LET distance == distance_to(track.emotional_profile, target_emotion)
        familiarity_weight == Get(preferences, "familiarity_preference", Tenths(5))
        popularity_boost == (track.emotional_profile.resonance * familiarity_weight) \div Unit
    IN  (ScoreScale * Unit) \div (Unit + distance)
        + (popularity_boost * 2 * ScoreScale) \div (10 * Unit)

\* PlaylistGenerationEngine._find_tracks_for_emotion: the tracks by descending
\* score, equal scores in their input order (list.sort is stable, also reversed)
_find_tracks_for_emotion(tracks, target_emotion, preferences) ==
    LET n == Len(tracks)
        score == list([j \in 1..n |-> track_score(tracks[j], target_emotion, preferences)])
        rank == list([j \in 1..n |->
                         1 + Cardinality({k \in 1..n : \/ score[k] > score[j]
                                                       \/ score[k] = score[j] /\ k < j})])
    IN  list([i \in 1..n |-> tracks[CHOOSE j \in 1..n : rank[j] = i]])

\* PlaylistGenerationEngine._select_best_track: <<>> is None
_select_best_track(scored_tracks, existing_tracks, preferences) ==
    LET max_artist_tracks == Get(preferences, "max_artist_tracks", 2)
        artist_count(a) ==
            Cardinality({k \in 1..Len(existing_tracks) : existing_tracks[k].artist = a})
        eligible == {j \in 1..Len(scored_tracks) :
                        /\ ~(artist_count(scored_tracks[j].artist) >= max_artist_tracks)
                        /\ \A k \in 1..Len(existing_tracks) :
                               existing_tracks[k].id # scored_tracks[j].id}
    IN  IF eligible = {} THEN <<>>
        ELSE <<scored_tracks[CHOOSE j \in eligible : \A k \in eligible : j <= k]>>

\* sum(track.duration for track in tracks) // 60
duration_minutes_of(tracks) ==
    SumSeq([j \in 1..Len(tracks) |-> tracks[j].duration]) \div 60

RemoveAt(s, i) == list([j \in 1..(Len(s) - 1) |-> IF j < i THEN s[j] ELSE s[j + 1]])

\* the index popped by one round of the shrink loop (lines 364-377), from 1:
\* the first interior track with the least disruption, the first track when the
\* list has no interior track
best_removal_index(tracks) ==
    LET interior == 2..(Len(tracks) - 1)
        disruption(i) == distance_to(tracks[i + 1].emotional_profile,
                                     tracks[i - 1].emotional_profile)
        least == {i \in interior : \A k \in interior : disruption(i) <= disruption(k)}
    IN  IF interior = {} THEN 1
        ELSE CHOOSE i \in least : \A k \in least : i <= k

\* the shrink loop of _adjust_playlist_duration (lines 362-378)
RECURSIVE shrink_to_target(_, _)
shrink_to_target(tracks, target_duration) ==
    IF duration_minutes_of(tracks) > target_duration /\ Len(tracks) > 1
    THEN shrink_to_target(RemoveAt(tracks, best_removal_index(tracks)), target_duration)
    ELSE tracks

\* PlaylistGenerationEngine._adjust_playlist_duration.  The module never imports
\* numpy, so the np.mean of the grow branch (line 328) raises NameError before a
\* track is appended.
_adjust_playlist_duration(tracks, target_duration_minutes, available_tracks) ==
    IF duration_minutes_of(tracks) < target_duration_minutes
    THEN [raised |-> "NameError", tracks |-> tracks]
    ELSE [raised |-> "", tracks |-> shrink_to_target(tracks, target_duration_minutes)]

\* the loop of _select_tracks_for_route over the route points (lines 215-228), i
\* from 1.  For a track selected at a later point than the first, line 225 evaluates
\* [a] + b + [c][i-1]: [c][0] is a point, and list + point raises TypeError; [c][i-1]
\* raises IndexError from the third point on.
RECURSIVE select_for_points(_, _, _, _, _)
select_for_points(points, i, track_candidates, playlist_tracks, preferences) ==
    IF i > Len(points) THEN [raised |-> "", tracks |-> playlist_tracks]
    ELSE LET with_selected(selected_track) ==
                 IF Len(selected_track) # 0 /\ i > 1
                 THEN [raised |-> IF i = 2 THEN "TypeError" ELSE "IndexError",
                       tracks |-> playlist_tracks]
                 ELSE select_for_points(points, i + 1, track_candidates,
                                        playlist_tracks \o selected_track, preferences)
         IN  with_selected(
                 _select_best_track(
                     _find_tracks_for_emotion(track_candidates, points[i], preferences),
                     playlist_tracks, preferences))

\* PlaylistGenerationEngine._select_tracks_for_route
_select_tracks_for_route(r, available_tracks, preferences) ==
    IF Len(available_tracks) > 0 /\ ~IsMapping(available_tracks[1])
    THEN [raised |-> "AttributeError", tracks |-> <<>>]
    ELSE LET adjusted(track_candidates, picked) ==
                 IF picked.raised # "" THEN picked
                 ELSE _adjust_playlist_duration(picked.tracks, r.total_duration,
                                                track_candidates)
             selected_from(track_candidates) ==
                 adjusted(track_candidates,
                          select_for_points(
                              <<r.start_point>> \o r.waypoints \o <<r.end_point>>,
                              1, track_candidates, <<>>, preferences))
         IN  selected_from(list([j \in 1..Len(available_tracks) |->
                                    _create_playlist_track(available_tracks[j])]))

-----------------------------------------------------------------------------
(* PlaylistGenerationEngine: playlists                                     *)

\* user_request["text"] is a str, held as the set of keywords it contains
TextOf(user_request) == Get(user_request, "text", [str |-> {}])

\* .lower() on a text that is None raises AttributeError (line 170)
classification_raises(user_request) == IsNone(TextOf(user_request))

\* a classification in which the last keyword group found in the text wins
_determine_playlist_type_last_match(user_request, user_emotion) ==
    LET request_text == TextOf(user_request).str
        any_word_in(words) == request_text \cap words # {}
    IN  IF any_word_in({"maintain", "keep", "steady"}) THEN "mood_maintenance"
        ELSE IF any_word_in({"party", "dance", "celebrate"}) THEN "ecstatic_release"
        ELSE IF any_word_in({"nostalgia", "memories", "classic"}) THEN "nostalgic_voyage"
        ELSE IF any_word_in({"heal", "therapy", "comfort"}) THEN "healing_session"
        ELSE IF any_word_in({"calm", "peaceful", "meditate"}) THEN "contemplative_dive"
        ELSE IF any_word_in({"energy", "pump", "motivate"}) THEN "energy_building"
        ELSE IF any_word_in({"journey", "adventure", "explore"}) THEN "discovery_expedition"
        ELSE "emotional_journey"

\* PlaylistGenerationEngine._determine_playlist_type, for a str text
_determine_playlist_type(user_request, user_emotion) ==
    LET request_text == TextOf(user_request).str
        any_word_in(words) == request_text \cap words # {}
        valence == Get(user_emotion, "valence", Tenths(5))
        arousal == Get(user_emotion, "arousal", Tenths(5))
    IN  IF any_word_in({"journey", "adventure", "explore"}) THEN "discovery_expedition"
        ELSE IF any_word_in({"energy", "pump", "motivate"}) THEN "energy_building"
        ELSE IF any_word_in({"calm", "peaceful", "meditate"}) THEN "contemplative_dive"
        ELSE IF any_word_in({"heal", "therapy", "comfort"}) THEN "healing_session"
        ELSE IF any_word_in({"nostalgia", "memories", "classic"}) THEN "nostalgic_voyage"
        ELSE IF any_word_in({"party", "dance", "celebrate"}) THEN "ecstatic_release"
        ELSE IF any_word_in({"maintain", "keep", "steady"}) THEN "mood_maintenance"
        ELSE IF valence < Tenths(4) /\ arousal < Tenths(4) THEN "healing_session"
        ELSE IF valence > Tenths(7) /\ arousal > Tenths(7) THEN "ecstatic_release"
        ELSE IF valence < Tenths(5) THEN "contemplative_dive"
        ELSE IF arousal < Tenths(4) THEN "contemplative_dive"
        ELSE "emotional_journey"

\* PlaylistGenerationEngine._generate_playlist_name: <<base name, mood descriptor>>
_generate_playlist_name(playlist_type, user_emotion) ==
    LET base_name ==
            CASE playlist_type = "emotional_journey" -> "Emotional Journey Through Sound"
              [] playlist_type = "mood_maintenance" -> "Steady State Sessions"
              [] playlist_type = "energy_building" -> "Energy Ascension"
              [] playlist_type = "contemplative_dive" -> "Deep Contemplation"
              [] playlist_type = "discovery_expedition" -> "Sonic Discovery Expedition"
              [] playlist_type = "nostalgic_voyage" -> "Nostalgic Sound Voyage"
              [] playlist_type = "ecstatic_release" -> "Ecstatic Energy Release"
              [] playlist_type = "healing_session" -> "Healing Sound Session"
              [] OTHER -> "Curated Sound Experience"
        valence == Get(user_emotion, "valence", Tenths(5))
        arousal == Get(user_emotion, "arousal", Tenths(5))
        mood_descriptor ==
            IF valence > Tenths(7) /\ arousal > Tenths(7) THEN "Energetic Joy"
            ELSE IF valence > Tenths(7) THEN "Peaceful Contentment"
            ELSE IF valence < Tenths(3) THEN "Contemplative Depth"
            ELSE IF arousal > Tenths(7) THEN "Dynamic Energy"
            ELSE "Balanced Flow"
    IN  <<base_name, mood_descriptor>>

\* PlaylistGenerationEngine._describe_emotional_point
_describe_emotional_point(point) ==
    <<IF point.valence > Tenths(6) THEN "positive"
      ELSE IF point.valence < Tenths(4) THEN "contemplative" ELSE "balanced",
      IF point.arousal > Tenths(7) THEN "high energy"
      ELSE IF point.arousal < Tenths(4) THEN "gentle" ELSE "moderate energy">>

\* PlaylistGenerationEngine._generate_playlist_description: the parts of the sentence
_generate_playlist_description(r, playlist_type) ==
    <<playlist_type, _describe_emotional_point(r.start_point),
      _describe_emotional_point(r.end_point)>>

\* DynamicPlaylist with total_duration in whole minutes, the unit of
\* route.total_duration, instead of the seconds of the track durations
DynamicPlaylist_in_minutes(id, name, description, type, r, tracks, user_preferences, adaptive_parameters, utcnow) ==
    [id |-> id, name |-> name, description |-> description, type |-> type,
     status |-> "ready", route |-> r, tracks |-> tracks,
     total_duration |-> SumSeq([j \in 1..Len(tracks) |-> tracks[j].duration]) \div 60,
     created_at |-> utcnow, updated_at |-> utcnow,
     user_preferences |-> user_preferences, play_history |-> <<>>,
     adaptive_parameters |-> adaptive_parameters]

\* the DynamicPlaylist dataclass; created_at and updated_at default to utcnow()
DynamicPlaylist(id, name, description, type, r, tracks, user_preferences, adaptive_parameters, utcnow) ==
    [id |-> id, name |-> name, description |-> description, type |-> type,
     status |-> "ready", route |-> r, tracks |-> tracks,
     total_duration |-> SumSeq([j \in 1..Len(tracks) |-> tracks[j].duration]),
     created_at |-> utcnow, updated_at |-> utcnow,
     user_preferences |-> user_preferences, play_history |-> <<>>,
     adaptive_parameters |-> adaptive_parameters]

\* _create_fallback_playlist without the [:10] slice of line 431
_create_fallback_playlist_unsliced(user_request, available_tracks, uuid, utcnow) ==
    LET tracks == list([j \in 1..Len(available_tracks) |->
                           _create_playlist_track(available_tracks[j])])
        r == MoodRoute(NeutralPoint(0), NeutralPoint(TimeUnit), <<>>, "stable", "smooth",
                       60, Tenths(5))
    IN  DynamicPlaylist(uuid, <<"Curated Selection">>,
                        <<"A thoughtfully selected collection of tracks">>,
                        "emotional_journey", r, tracks, <<>>, <<>>, utcnow)

\* PlaylistGenerationEngine._create_fallback_playlist
_create_fallback_playlist(user_request, available_tracks, uuid, utcnow) ==
    LET tracks == list([j \in 1..Min(10, Len(available_tracks)) |->
                           _create_playlist_track(available_tracks[j])])
        r == MoodRoute(NeutralPoint(0), NeutralPoint(TimeUnit), <<>>, "stable", "smooth",
                       60, Tenths(5))
    IN  DynamicPlaylist(uuid, <<"Curated Selection">>,
                        <<"A thoughtfully selected collection of tracks">>,
                        "emotional_journey", r, tracks, <<>>, <<>>, utcnow)

\* PlaylistGenerationEngine.generate_playlist.  gate and router_gate are the answers
\* of the engine's and of the router's ethics evaluator.  The result names the
\* playlist returned, whether line 153 cached it, and the exception the except
\* clause of line 164 caught ("" when none).
generate_playlist(user_request, user_emotion, available_tracks, preferences, gate, router_gate, uuid, utcnow) ==
    LET fallback(caught) ==
            [playlist |-> _create_fallback_playlist(user_request, available_tracks,
                                                    uuid, utcnow),
             cached |-> FALSE, caught |-> caught]
    IN  IF gate = "rejected" THEN fallback("")
        ELSE IF gate = "raised" THEN fallback("EthicsError")
        ELSE IF classification_raises(user_request) THEN fallback("AttributeError")
        ELSE LET target_emotion == Get(user_request, "target_emotion", <<>>)
                 duration_minutes == Get(user_request, "duration_minutes", 60)
                 with_tracks(playlist_type, r, selected) ==
                     IF selected.raised # "" THEN fallback(selected.raised)
                     ELSE [playlist |->
                               DynamicPlaylist(uuid,
                                   _generate_playlist_name(playlist_type, user_emotion),
                                   _generate_playlist_description(r, playlist_type),
                                   playlist_type, r, selected.tracks, preferences,
                                   [emotional_sensitivity |->
                                        Get(preferences, "emotional_sensitivity", Tenths(7)),
                                    discovery_rate |->
                                        Get(preferences, "discovery_rate", Tenths(3)),
                                    familiarity_balance |->
                                        Get(preferences, "familiarity_balance", Tenths(5))],
                                   utcnow),
                           cached |-> TRUE, caught |-> ""]
                 with_route(playlist_type, r) ==
                     with_tracks(playlist_type, r,
                                 _select_tracks_for_route(r, available_tracks, preferences))
             IN  with_route(_determine_playlist_type(user_request, user_emotion),
                            create_emotional_route(user_emotion, target_emotion,
                                                   duration_minutes, preferences,
                                                   router_gate))

-----------------------------------------------------------------------------
(* PlaylistGenerationEngine: adaptation                                    *)

\* _adapt_to_skips starting the playlist's feedback log afresh
_adapt_to_skips_forgetting(playlist, feedback) ==
    [raised |-> "", playlist |-> [playlist EXCEPT !.play_history = <<>>]]

\* PlaylistGenerationEngine._adapt_to_skips.  The class defines no
\* _find_replacement_track, so line 504 raises AttributeError at the first track
\* whose skip rate is above 0.7.
_adapt_to_skips(playlist, feedback) ==
    LET skip_data == Get(feedback, "skip_data", <<>>)
        high_skip_tracks == {id \in DOMAIN skip_data : skip_data[id] > Tenths(7)}
    IN  IF \E j \in 1..Len(playlist.tracks) : playlist.tracks[j].id \in high_skip_tracks
        THEN [raised |-> "AttributeError", playlist |-> playlist]
        ELSE [raised |-> "", playlist |-> playlist]

\* PlaylistGenerationEngine._adapt_to_emotional_feedback
_adapt_to_emotional_feedback(playlist, feedback, router_gate) ==
    LET emotional_response == Get(feedback, "emotional_response", <<>>)
        with_tracks(new_route, new_tracks) ==
            IF new_tracks.raised # ""
            THEN [raised |-> new_tracks.raised,
                  playlist |-> [playlist EXCEPT !.route = new_route]]
            ELSE [raised |-> "",
                  playlist |-> [playlist EXCEPT !.route = new_route,
                                                !.tracks = new_tracks.tracks]]
        with_route(new_route) ==
            with_tracks(new_route,
                        _select_tracks_for_route(new_route, playlist.tracks,
                                                 playlist.user_preferences))
    IN  IF Get(emotional_response, "overall_satisfaction", Tenths(5)) < Tenths(4)
        THEN with_route(create_emotional_route(
                            Get(emotional_response, "current_state", <<>>), <<>>,
                            playlist.route.total_duration, playlist.user_preferences,
                            router_gate))
        ELSE [raised |-> "", playlist |-> playlist]

\* int(d * 0.7) in doubles, d a whole number of minutes below 500: the product is
\* rounded to a double just under the exact value for the listed d
int_of_seventy_percent(d) ==
    IF d < 0 THEN 0 - ((7 * (0 - d)) \div 10)
    ELSE (7 * d) \div 10 - (IF d \in {90, 170, 180, 330, 340, 350, 360} THEN 1 ELSE 0)

\* PlaylistGenerationEngine._adapt_to_completion_patterns
_adapt_to_completion_patterns(playlist, feedback) ==
    LET completion_rate == Get(feedback, "completion_rate", Unit)
        with_tracks(target_duration, adjusted) ==
            IF adjusted.raised # ""
            THEN [raised |-> adjusted.raised, playlist |-> playlist]
            ELSE [raised |-> "",
                  playlist |-> [playlist EXCEPT !.tracks = adjusted.tracks,
                                                !.route.total_duration = target_duration]]
        with_target(target_duration) ==
            with_tracks(target_duration,
                        _adjust_playlist_duration(playlist.tracks, target_duration,
                                                  playlist.tracks))
    IN  IF completion_rate < Tenths(5)
        THEN with_target(int_of_seventy_percent(playlist.route.total_duration))
        ELSE [raised |-> "", playlist |-> playlist]

\* adapt_playlist for a cached id with no dispatch on the feedback type: every
\* feedback shortens the playlist like a completion_rate below 0.5
adapt_cached_undispatched(cache, playlist_id, feedback, router_gate, utcnow) ==
    LET recorded ==
            [cache[playlist_id] EXCEPT
                 !.play_history = Append(@, [timestamp |-> utcnow, feedback |-> feedback])]
        finish(adapted) ==
            IF adapted.raised # ""
            THEN [outcome |-> adapted.raised,
                  cache |-> [cache EXCEPT ![playlist_id] = adapted.playlist]]
            ELSE [outcome |-> "returned",
                  cache |-> [cache EXCEPT ![playlist_id] =
                                 [adapted.playlist EXCEPT !.updated_at = utcnow]]]
    IN  finish(_adapt_to_completion_patterns(recorded, [completion_rate |-> 0]))

\* PlaylistGenerationEngine.adapt_playlist for an id the cache holds (lines 471-488):
\* the feedback is recorded first, then the adaptation of its type runs, and
\* updated_at is set when none raised
adapt_cached(cache, playlist_id, feedback, router_gate, utcnow) ==
    LET recorded ==
            [cache[playlist_id] EXCEPT
                 !.play_history = Append(@, [timestamp |-> utcnow, feedback |-> feedback])]
        adaptation_type == Get(feedback, "type", "")
        finish(adapted) ==
            IF adapted.raised # ""
            THEN [outcome |-> adapted.raised,
                  cache |-> [cache EXCEPT ![playlist_id] = adapted.playlist]]
            ELSE [outcome |-> "returned",
                  cache |-> [cache EXCEPT ![playlist_id] =
                                 [adapted.playlist EXCEPT !.updated_at = utcnow]]]
        adapt(playlist) ==
            IF adaptation_type = "skip_frequency"
            THEN _adapt_to_skips(playlist, feedback)
            ELSE IF adaptation_type = "emotional_response"
            THEN _adapt_to_emotional_feedback(playlist, feedback, router_gate)
            ELSE IF adaptation_type = "completion_rate"
            THEN _adapt_to_completion_patterns(playlist, feedback)
            ELSE [raised |-> "", playlist |-> playlist]
    IN  finish(adapt(recorded))

\* adapt_playlist degrading like generate_playlist does: an unknown id gets a fallback
\* playlist, stored under that id
adapt_playlist_degrading(cache, playlist_id, feedback, router_gate, utcnow) ==
    IF playlist_id \notin DOMAIN cache
    THEN [outcome |-> "returned",
          cache |-> (playlist_id :> _create_fallback_playlist(<<>>, <<>>, playlist_id, utcnow))
                    @@ cache]
    ELSE adapt_cached(cache, playlist_id, feedback, router_gate, utcnow)

\* PlaylistGenerationEngine.adapt_playlist: the outcome ("returned" or the exception
\* that propagates) and the cache afterwards
adapt_playlist(cache, playlist_id, feedback, router_gate, utcnow) ==
    IF playlist_id \notin DOMAIN cache THEN [outcome |-> "ValueError", cache |-> cache]
    ELSE adapt_cached(cache, playlist_id, feedback, router_gate, utcnow)

-----------------------------------------------------------------------------
(* Inputs of the engine                                                    *)

\* a catalog record as the callers pass it
CatalogTrack(id, artist, minutes, valence, energy) ==
    [id |-> id, artist |-> artist, duration_ms |-> minutes * 60 * 1000,
     valence |-> valence, energy |-> energy, popularity |-> Tenths(6)]

EmptyCatalog == <<>>
SoloLong == <<CatalogTrack(1, "ana", 100, Tenths(6), Tenths(5))>>
Pair == <<CatalogTrack(1, "ana", 3, Tenths(6), Tenths(5)),
          CatalogTrack(2, "ben", 3, Tenths(2), Tenths(8))>>
SameArtist == <<CatalogTrack(1, "ana", 10, Tenths(2), Tenths(3)),
                CatalogTrack(2, "ana", 10, Tenths(6), Tenths(5)),
                CatalogTrack(3, "ana", 10, Tenths(9), Tenths(9))>>
Dozen == list([i \in 1..12 |->
                  CatalogTrack(i, IF i % 3 = 0 THEN "ana" ELSE IF i % 3 = 1 THEN "ben" ELSE "cy",
                               3, Tenths((i * 3) % 10), Tenths((i * 7) % 10))])

\* twelve tracks of ten artists: the first three share one artist
CrowdArtists == <<"ana", "ben", "cy", "dee", "eli", "fay", "gus", "hal", "ivy", "jo">>
Crowd == list([i \in 1..12 |->
                  CatalogTrack(i, IF i <= 3 THEN "ana" ELSE CrowdArtists[i - 2],
                               3, Tenths((i * 3) % 10), Tenths((i * 7) % 10))])

CalmRequest == [text |-> [str |-> {"calm"}]]
ShortRequest == [text |-> [str |-> {}], duration_minutes |-> 5]
LongRequest == [text |-> [str |-> {"journey"}], duration_minutes |-> 90]
NoTextRequest == [text |-> NoneValue]
NegativeRequest == [text |-> [str |-> {}], duration_minutes |-> 0 - 5]
TargetRequest ==
    [text |-> [str |-> {"party", "calm"}], duration_minutes |-> 0,
     target_emotion |-> [valence |-> Tenths(9), arousal |-> Tenths(9)]]

LowMood == [valence |-> Tenths(2), arousal |-> Tenths(3)]

Energizing == [journey_type |-> "energizing", max_artist_tracks |-> 1]
BadComplexity == [complexity |-> [str |-> "high"]]

GenerateCall(user_request, user_emotion, available_tracks, preferences) ==
    [user_request |-> user_request, user_emotion |-> user_emotion,
     available_tracks |-> available_tracks, preferences |-> preferences]

\* the calls of generate_playlist that callers make
GenerateCalls ==
    {GenerateCall(CalmRequest, <<>>, SoloLong, <<>>),
     GenerateCall(ShortRequest, LowMood, SoloLong, Energizing),
     GenerateCall(LongRequest, LowMood, SoloLong, <<>>),
     GenerateCall(CalmRequest, <<>>, SoloLong, BadComplexity),
     GenerateCall(NoTextRequest, <<>>, SoloLong, <<>>),
     GenerateCall(CalmRequest, <<>>, Pair, <<>>),
     GenerateCall(CalmRequest, LowMood, Dozen, <<>>),
     GenerateCall(CalmRequest, LowMood, Crowd, <<>>),
     GenerateCall(TargetRequest, <<>>, Dozen, Energizing),
     GenerateCall(ShortRequest, LowMood, SameArtist, Energizing),
     GenerateCall(CalmRequest, LowMood, SameArtist, Energizing),
     GenerateCall(TargetRequest, <<>>, EmptyCatalog, <<>>),
     GenerateCall(CalmRequest, <<>>, EmptyCatalog, <<>>),
     GenerateCall(NegativeRequest, LowMood, SoloLong, <<>>)}

\* the answers of the engine's and of the router's evaluator during one call; the
\* router's is only asked when the engine's permits
GatePairs ==
    {<<"rejected", "permitted">>, <<"raised", "permitted">>} \cup
    {<<"permitted", router_gate>> : router_gate \in GateAnswers}

Feedbacks ==
    {[type |-> "completion_rate", completion_rate |-> Tenths(3)],
     [type |-> "completion_rate", completion_rate |-> Tenths(8)],
     [type |-> "skip_frequency", skip_data |-> (1 :> Tenths(9)) @@ (2 :> Tenths(5))],
     [type |-> "emotional_response",
      emotional_response |-> [overall_satisfaction |-> Tenths(1),
                              current_state |-> LowMood]],
     [type |-> "emotional_response",
      emotional_response |-> [overall_satisfaction |-> Tenths(4),
                              current_state |-> LowMood]],
     [type |-> "liked"],
     [comment |-> "no type"]}

-----------------------------------------------------------------------------
(* The engine as a state machine                                           *)

\* calls made to one engine, or to one router
MaxCalls == 3

\* playlists one engine is asked to generate
MaxPlaylists == 1

\* route_to_tracks calls one caller makes
MaxRoutings == 1

\* applications of one method to the arguments a caller draws
MaxProbes == 1

Init ==
    /\ playlist_cache = <<>>
    /\ next_uuid = 0
    /\ now = 0
    /\ route = <<>>
    /\ probe = <<>>
    /\ lastOp = [op |-> "none"]
    /\ tasks = <<>>

\* a caller awaits generate_playlist
GeneratePlaylist ==
    /\ now < MaxCalls
    /\ next_uuid < MaxPlaylists
    /\ \E call \in GenerateCalls, gates \in GatePairs :
          LET result == generate_playlist(call.user_request, call.user_emotion,
                                          call.available_tracks, call.preferences,
                                          gates[1], gates[2], next_uuid, now)
          IN  /\ playlist_cache' = IF result.cached
                                   THEN (next_uuid :> result.playlist) @@ playlist_cache
                                   ELSE playlist_cache
              /\ lastOp' = [op |-> "generate_playlist", outcome |-> "returned",
                            args |-> call, gate |-> gates[1], router_gate |-> gates[2],
                            caught |-> result.caught, playlist |-> result.playlist]
    /\ next_uuid' = next_uuid + 1
    /\ now' = now + 1
    /\ UNCHANGED <<route, probe, tasks>>

\* a caller awaits adapt_playlist with an id handed out before, or with one that
\* never was (next_uuid)
AdaptPlaylist ==
    /\ now < MaxCalls
    /\ \E playlist_id \in 0..next_uuid, feedback \in Feedbacks,
          router_gate \in {"permitted", "rejected"} :
          LET result == adapt_playlist(playlist_cache, playlist_id, feedback, router_gate, now)
          IN  /\ playlist_cache' = result.cache
              /\ lastOp' = [op |-> "adapt_playlist", outcome |-> result.outcome,
                            playlist_id |-> playlist_id, feedback |-> feedback,
                            router_gate |-> router_gate]
    /\ now' = now + 1
    /\ UNCHANGED <<next_uuid, route, probe, tasks>>

Next == GeneratePlaylist \/ AdaptPlaylist

Spec == Init /\ [][Next]_vars

-----------------------------------------------------------------------------
(* Inputs of the router                                                    *)

Ones == [valence |-> Unit, arousal |-> Unit, dominance |-> Unit, depth |-> Unit,
         resonance |-> Unit]
Floor == [valence |-> 0 - Unit, arousal |-> 0, dominance |-> 0, depth |-> 0,
          resonance |-> 0]

UserEmotions ==
    {<<>>, LowMood, Ones, Floor,
     [valence |-> 2 * Unit, arousal |-> 0 - Tenths(5)],
     [valence |-> Tenths(2)],
     [arousal |-> Unit, depth |-> Unit],
     [valence |-> Unit, arousal |-> Tenths(3)]}

TargetEmotions ==
    {<<>>,
     [valence |-> Tenths(9), arousal |-> Tenths(9)],
     [valence |-> 0 - Unit, arousal |-> 0, depth |-> Unit]}

RouterPreferences ==
    {<<>>,
     [journey_type |-> "energizing"],
     [journey_type |-> "calming", experience_level |-> "beginner"],
     [journey_type |-> "steady", experience_level |-> "advanced"],
     [journey_type |-> "energizing", complexity |-> [int |-> 0]],
     [complexity |-> [int |-> 1]],
     [complexity |-> [int |-> 0 - 1]],
     [emotional_arc |-> "wavy", complexity |-> [int |-> 5]],
     [emotional_arc |-> "transformation", transition_style |-> "bridge"],
     BadComplexity}

\* targets a quarter above and below the arousal 0.3 of LowMood
QuarterTargets ==
    {[valence |-> Tenths(9), arousal |-> Tenths(5) + Tenths(1) \div 2],
     [valence |-> 0 - Tenths(5), arousal |-> Tenths(1) \div 2]}

RouteCall(user_emotion, target_emotion, duration_minutes, preferences, gate) ==
    [user_emotion |-> user_emotion, target_emotion |-> target_emotion,
     duration_minutes |-> duration_minutes, preferences |-> preferences, gate |-> gate]

\* the calls of create_emotional_route that callers make
RouteCalls ==
    {RouteCall(e, t, 30, p, "permitted") :
         e \in UserEmotions, t \in TargetEmotions, p \in RouterPreferences} \cup
    {RouteCall(e, <<>>, d, p, g) :
         e \in {<<>>, Ones}, d \in {30, 45}, p \in {<<>>, BadComplexity},
         g \in GateAnswers} \cup
    {RouteCall(LowMood, t, 30, <<>>, "permitted") : t \in QuarterTargets}

\* positions on the journey, in TimeUnit
ProbeTimes == {0, 10, 15, 25, 30, 45, 59, 60}

-----------------------------------------------------------------------------
(* The router as a state machine                                           *)

\* a caller awaits create_emotional_route and keeps the route
CreateEmotionalRoute ==
    /\ now < MaxCalls
    /\ \E call \in RouteCalls :
          /\ route' = <<create_emotional_route(call.user_emotion, call.target_emotion,
                                               call.duration_minutes, call.preferences,
                                               call.gate)>>
          /\ lastOp' = [op |-> "create_emotional_route", outcome |-> "returned",
                        args |-> call]
    /\ probe' = <<>>
    /\ now' = now + 1
    /\ UNCHANGED <<playlist_cache, next_uuid, tasks>>

\* the caller asks its route for the emotional state at a position; args stay the
\* arguments that built the route
GetEmotionalAt ==
    /\ now < MaxCalls
    /\ route # <<>>
    /\ \E t \in ProbeTimes :
          /\ probe' = <<get_emotional_at(route[1], t)>>
          /\ lastOp' = [op |-> "get_emotional_at", outcome |-> "returned",
                        args |-> lastOp.args, t |-> t]
    /\ now' = now + 1
    /\ UNCHANGED <<playlist_cache, next_uuid, route, tasks>>

NextRouter == CreateEmotionalRoute \/ GetEmotionalAt

SpecRouter == Init /\ [][NextRouter]_vars

-----------------------------------------------------------------------------
(* Duration repair on its own                                              *)

Quartet == <<CatalogTrack(1, "ana", 2, Tenths(2), Tenths(3)),
             CatalogTrack(2, "ben", 3, Tenths(6), Tenths(5)),
             CatalogTrack(3, "cy", 4, Tenths(9), Tenths(9)),
             CatalogTrack(4, "dee", 10, Tenths(5), Tenths(1))>>

\* the PlaylistTrack objects of the catalog, as _select_tracks_for_route builds them
RepairPool == list([j \in 1..Len(Quartet) |-> _create_playlist_track(Quartet[j])])

\* the elements of s at the positions in S, in their order
RECURSIVE Keep(_, _, _)
Keep(s, S, i) ==
    IF i > Len(s) THEN <<>>
    ELSE (IF i \in S THEN <<s[i]>> ELSE <<>>) \o Keep(s, S, i + 1)

\* the track lists handed to _adjust_playlist_duration
RepairLists == {Keep(RepairPool, S, 1) : S \in SUBSET (1..Len(RepairPool))}

\* target durations, in minutes
RepairTargets == {0, 3, 5, 9, 12, 30}

\* _adjust_playlist_duration is awaited with a track list, a target and a candidate
\* pool: the catalog's tracks (line 231) or the list itself (line 535)
AdjustPlaylistDuration ==
    /\ now < MaxCalls
    /\ \E tracks \in RepairLists, target \in RepairTargets :
          \E available_tracks \in {RepairPool, tracks} :
             LET result == _adjust_playlist_duration(tracks, target, available_tracks)
             IN  lastOp' = [op |-> "_adjust_playlist_duration",
                            outcome |-> IF result.raised # "" THEN result.raised
                                        ELSE "returned",
                            tracks |-> tracks, target_duration_minutes |-> target,
                            available_tracks |-> available_tracks,
                            result |-> result.tracks]
    /\ now' = now + 1
    /\ UNCHANGED <<playlist_cache, next_uuid, route, probe, tasks>>

NextRepair == AdjustPlaylistDuration

SpecRepair == Init /\ [][NextRepair]_vars

-----------------------------------------------------------------------------
(* Coroutines on the event loop                                            *)
(*                                                                         *)
(* Every public method is a coroutine.  An await of a coroutine runs it in *)
(* the awaiting task; the task leaves the event loop to the other tasks    *)
(* only where the chain of awaits ends in an awaitable that suspends.      *)

\* what suspends the awaiting task: none of these is awaited by the three classes
\* (the asyncio.Queue of dynamic_playlist.py line 83 is created and never used)
SuspendingAwaitables ==
    {"asyncio.sleep", "asyncio.Queue.get", "asyncio.Lock.acquire", "asyncio.Future"}

\* the awaits of each coroutine that awaits
AwaitedBy ==
    [adapt_playlist |->
         {"_adapt_to_skips", "_adapt_to_emotional_feedback",
          "_adapt_to_completion_patterns"},
     _adapt_to_skips |-> {"_find_replacement_track"},
     _adapt_to_emotional_feedback |-> {"create_emotional_route", "_select_tracks_for_route"},
     _adapt_to_completion_patterns |-> {"_adjust_playlist_duration"},
     _select_tracks_for_route |->
         {"_create_playlist_track", "_find_tracks_for_emotion", "_select_best_track",
          "_generate_transition_notes", "_adjust_playlist_duration"},
     create_emotional_route |->
         {"evaluate_action", "_create_safe_route", "_generate_meaningful_endpoint",
          "_determine_arc_type", "_create_waypoints", "_determine_transition_style",
          "_calculate_estimated_impact"},
     evaluate_action |->
         {"_check_sovereignty", "_check_consent_flow", "_check_emotional_integrity",
          "_check_non_harm", "_check_transparency", "_check_memory",
          "_check_world_boundary", "_check_emergent_guardrail"}]

\* a task that awaits whatever has its awaits suspend
SuspendsAtEveryAwait(awaitable) == TRUE

\* awaiting the awaitable suspends the task
RECURSIVE Suspends(_)
Suspends(awaitable) ==
    \/ awaitable \in SuspendingAwaitables
    \/ /\ awaitable \in DOMAIN AwaitedBy
       /\ \E awaited \in AwaitedBy[awaitable] : Suspends(awaited)

\* a task the loop has not started yet
AdaptTask(playlist_id, feedback) ==
    [playlist_id |-> playlist_id, feedback |-> feedback, pc |-> "pending",
     outcome |-> "", pending_with |-> 0, read |-> <<>>]

\* one turn of the event loop for a task that runs adapt_playlist: the task runs
\* until it suspends or ends.  A pending task that suspends has recorded the
\* feedback and read the playlist; resumed, it writes the adaptation of what it
\* read to the cached object.
run_adapt_task(cache, task, pending_with, utcnow) ==
    IF task.pc = "pending"
    THEN IF task.playlist_id \in DOMAIN cache /\ Suspends("adapt_playlist")
         THEN [cache |-> [cache EXCEPT ![task.playlist_id].play_history =
                              Append(@, [timestamp |-> utcnow, feedback |-> task.feedback])],
               task |-> [task EXCEPT !.pc = "suspended", !.pending_with = pending_with,
                                     !.read = <<cache[task.playlist_id]>>]]
         ELSE LET finish(result) ==
                      [cache |-> result.cache,
                       task |-> [task EXCEPT !.pc = "done", !.outcome = result.outcome,
                                             !.pending_with = pending_with]]
              IN  finish(adapt_playlist(cache, task.playlist_id, task.feedback,
                                        "permitted", utcnow))
    ELSE LET write(adapted) ==
                 [cache |-> [cache EXCEPT
                                 ![task.playlist_id].tracks = adapted.tracks,
                                 ![task.playlist_id].route = adapted.route,
                                 ![task.playlist_id].updated_at = adapted.updated_at],
                  task |-> [task EXCEPT !.pc = "done", !.read = <<>>]]
         IN  write(adapt_cached(task.playlist_id :> task.read[1], task.playlist_id,
                                task.feedback, "permitted", utcnow).cache[task.playlist_id])

\* the generate_playlist calls of the requests the loop serves
LoopGenerateCalls ==
    {GenerateCall(ShortRequest, LowMood, SoloLong, Energizing),
     GenerateCall(LongRequest, LowMood, SoloLong, <<>>),
     GenerateCall(TargetRequest, <<>>, EmptyCatalog, <<>>)}

\* a request handler awaits generate_playlist; both evaluators permit
GenerateOnLoop ==
    /\ now < MaxCalls
    /\ next_uuid < MaxPlaylists
    /\ \E call \in LoopGenerateCalls :
          LET result == generate_playlist(call.user_request, call.user_emotion,
                                          call.available_tracks, call.preferences,
                                          "permitted", "permitted", next_uuid, now)
          IN  /\ playlist_cache' = IF result.cached
                                   THEN (next_uuid :> result.playlist) @@ playlist_cache
                                   ELSE playlist_cache
              /\ lastOp' = [op |-> "generate_playlist", outcome |-> "returned",
                            args |-> call, gate |-> "permitted",
                            router_gate |-> "permitted", caught |-> result.caught,
                            playlist |-> result.playlist]
    /\ next_uuid' = next_uuid + 1
    /\ now' = now + 1
    /\ UNCHANGED <<route, probe, tasks>>

\* a request arrives: its handler, which awaits adapt_playlist, becomes a task of
\* the loop
CreateTask ==
    /\ now < MaxCalls
    /\ \E playlist_id \in DOMAIN playlist_cache, feedback \in Feedbacks :
          tasks' = Append(tasks, AdaptTask(playlist_id, feedback))
    /\ now' = now + 1
    /\ UNCHANGED <<playlist_cache, next_uuid, route, probe, lastOp>>

\* the loop gives a turn to a task that is not done
RunTask ==
    /\ \E t \in DOMAIN tasks :
          /\ tasks[t].pc # "done"
          /\ LET others == {u \in DOMAIN tasks \ {t} : tasks[u].pc = "pending"}
                 turn == run_adapt_task(playlist_cache, tasks[t], Cardinality(others), now)
             IN  /\ playlist_cache' = turn.cache
                 /\ tasks' = [tasks EXCEPT ![t] = turn.task]
    /\ UNCHANGED <<next_uuid, now, route, probe, lastOp>>

NextLoop == GenerateOnLoop \/ CreateTask \/ RunTask

SpecLoop == Init /\ [][NextLoop]_vars

-----------------------------------------------------------------------------
(* MoodRouter.route_to_tracks                                              *)

\* MoodRouter._extract_track_emotion
_extract_track_emotion(track) ==
    EmotionalPoint(0, Get(track, "valence", Tenths(5)), Get(track, "energy", Tenths(5)),
                   Get(track, "dominance", Tenths(5)), Get(track, "depth", Tenths(5)),
                   Get(track, "popularity", Tenths(5)))

\* MoodRouter._calculate_track_fitness, in ScoreScale
_calculate_track_fitness(track_emotion, target_emotion, transition_style) ==
    LET fitness(distance) == (ScoreScale * Unit) \div (Unit + distance)
        base_distance == distance_to(track_emotion, target_emotion)
    IN  IF transition_style = "smooth" THEN fitness(base_distance)
        ELSE IF transition_style = "contrast" THEN fitness(Abs(base_distance - Tenths(3)))
        ELSE fitness(Abs(base_distance - Tenths(2)))

\* <<N - 1, i, k>> where the position i/(N-1) is exactly 0.15 away from the slot
\* k * 0.1 and the double difference is below the literal 0.15
GapRoundedBelow == {<<4, 3, 6>>, <<12, 9, 6>>}

\* position_diff of a track at position / scale from the slot k * 0.1, in
\* 1 / (10 * scale)
position_diff(position, scale, k) == Abs(10 * position - k * scale)

\* position_diff < 0.25
within_slot_wide(position, scale, k) ==
    20 * position_diff(position, scale, k) < 5 * 10 * scale

\* position_diff < 0.15
within_slot(position, scale, k) ==
    \/ 20 * position_diff(position, scale, k) < 3 * 10 * scale
    \/ <<scale, position, k>> \in GapRoundedBelow

\* the scan of track_positions for one slot: the entry kept in best_track (0 for
\* None) after the entries from j on
RECURSIVE best_for_slot(_, _, _, _, _, _, _)
best_for_slot(track_positions, scale, k, used_positions, j, best_track, best_fitness) ==
    IF j > Len(track_positions) THEN best_track
    ELSE LET track_data == track_positions[j]
             fitness == track_data.fitness
                            * (10 * scale - position_diff(track_data.position, scale, k))
         IN  IF /\ track_data.position \notin used_positions
                /\ within_slot(track_data.position, scale, k)
                /\ fitness > best_fitness
             THEN best_for_slot(track_positions, scale, k, used_positions, j + 1, j, fitness)
             ELSE best_for_slot(track_positions, scale, k, used_positions, j + 1,
                                best_track, best_fitness)

\* MoodRouter._create_emotionally_coherent_playlist from slot k on; positions are
\* in 1 / scale
RECURSIVE _create_emotionally_coherent_playlist(_, _, _, _)
_create_emotionally_coherent_playlist(track_positions, scale, k, used_positions) ==
    IF k > 10 THEN <<>>
    ELSE LET with_best(best_track) ==
                 IF best_track = 0
                 THEN _create_emotionally_coherent_playlist(track_positions, scale, k + 1,
                                                            used_positions)
                 ELSE <<track_positions[best_track].track>>
                      \o _create_emotionally_coherent_playlist(
                             track_positions, scale, k + 1,
                             used_positions \cup {track_positions[best_track].position})
         IN  with_best(best_for_slot(track_positions, scale, k, used_positions, 1, 0,
                                     0 - 1))

\* list.sort(key=fitness, reverse=True): stable, highest fitness first
sort_by_fitness(track_positions) ==
    LET n == Len(track_positions)
        before(a, b) == \/ track_positions[a].fitness > track_positions[b].fitness
                        \/ /\ track_positions[a].fitness = track_positions[b].fitness
                           /\ a < b
        rank(a) == Cardinality({b \in 1..n : before(b, a)}) + 1
    IN  list([r \in 1..n |-> track_positions[CHOOSE a \in 1..n : rank(a) = r]])

\* MoodRouter.route_to_tracks
route_to_tracks(r, available_tracks) ==
    LET total_tracks == Len(available_tracks)
        scale == Max(1, total_tracks - 1)
        entry(i) ==
            [track |-> available_tracks[i],
             position |-> i - 1,
             fitness |-> _calculate_track_fitness(
                             _extract_track_emotion(available_tracks[i]),
                             get_emotional_at(r, ((i - 1) * TimeUnit) \div scale),
                             r.transition_style)]
        coherent(track_positions) ==
            _create_emotionally_coherent_playlist(track_positions, scale, 0, {})
    IN  IF total_tracks = 0 THEN <<>>
        ELSE coherent(sort_by_fitness(list([i \in 1..total_tracks |-> entry(i)])))

\* catalogs of n tracks with emotional metadata; n - 1 divides TimeUnit
Shelf(n) ==
    list([i \in 1..n |-> CatalogTrack(i, "ana", 3, Tenths((i * 3) % 10),
                                      Tenths((i * 7) % 10))])

Shelves == {Shelf(n) : n \in {0, 1, 2, 3, 5, 7, 13}}

\* the routes that callers of route_to_tracks build
TrackRouteCalls ==
    {RouteCall(e, t, 30, p, "permitted") :
         e \in {<<>>, LowMood, Ones}, t \in TargetEmotions,
         p \in {<<>>,
                [journey_type |-> "calming", experience_level |-> "beginner"],
                [journey_type |-> "steady", experience_level |-> "advanced"],
                [journey_type |-> "energizing", complexity |-> [int |-> 0]],
                [emotional_arc |-> "wavy", complexity |-> [int |-> 5]],
                [emotional_arc |-> "transformation", transition_style |-> "bridge"]}} \cup
    {RouteCall(<<>>, <<>>, 30, <<>>, "rejected")}

\* a caller builds a route and asks the router for the tracks along it
RouteToTracks ==
    /\ now < MaxRoutings
    /\ \E call \in TrackRouteCalls, available_tracks \in Shelves :
          LET with_route(r) ==
                  lastOp' = [op |-> "route_to_tracks", outcome |-> "returned",
                             route |-> r, available_tracks |-> available_tracks,
                             result |-> route_to_tracks(r, available_tracks)]
          IN  with_route(create_emotional_route(call.user_emotion, call.target_emotion,
                                                call.duration_minutes, call.preferences,
                                                call.gate))
    /\ now' = now + 1
    /\ UNCHANGED <<playlist_cache, next_uuid, route, probe, tasks>>

NextTracks == RouteToTracks

SpecTracks == Init /\ [][NextTracks]_vars

-----------------------------------------------------------------------------
(* EmotionalPoint.distance_to on its own                                   *)

\* the points callers measure between
MeasuredPoints ==
    {EmotionalPoint(at[1], v, a, body[1], body[2], at[2]) :
         v \in {0 - Unit, Tenths(2)}, a \in {0, Tenths(9)},
         body \in {<<Tenths(5), Tenths(5)>>, <<0, Unit>>, <<Unit, Tenths(5)>>},
         at \in {<<0, Tenths(5)>>, <<TimeUnit, Unit>>}}

\* a caller asks one point for its distance to another
DistanceTo ==
    /\ now < MaxProbes
    /\ \E self \in MeasuredPoints, other \in MeasuredPoints :
          lastOp' = [op |-> "distance_to", outcome |-> "returned", self |-> self,
                     other |-> other, result |-> distance_to(self, other)]
    /\ now' = now + 1
    /\ UNCHANGED <<playlist_cache, next_uuid, route, probe, tasks>>

NextDistance == DistanceTo

SpecDistance == Init /\ [][NextDistance]_vars

-----------------------------------------------------------------------------
(* PlaylistGenerationEngine._select_tracks_for_route on its own            *)

\* the catalogs handed to the selection
SelectionCatalogs == {EmptyCatalog, SoloLong, Pair, Dozen}

\* the engine selects the tracks for a route the router built
SelectTracksForRoute ==
    /\ now < MaxProbes
    /\ \E call \in TrackRouteCalls, available_tracks \in SelectionCatalogs :
          LET with_route(r) ==
                  LET recorded(selected) ==
                          lastOp' = [op |-> "_select_tracks_for_route",
                                     outcome |-> IF selected.raised # ""
                                                 THEN selected.raised ELSE "returned",
                                     route |-> r, available_tracks |-> available_tracks,
                                     preferences |-> call.preferences,
                                     result |-> selected.tracks]
                  IN  recorded(_select_tracks_for_route(r, available_tracks,
                                                        call.preferences))
          IN  with_route(create_emotional_route(call.user_emotion, call.target_emotion,
                                                call.duration_minutes, call.preferences,
                                                call.gate))
    /\ now' = now + 1
    /\ UNCHANGED <<playlist_cache, next_uuid, route, probe, tasks>>

NextSelect == SelectTracksForRoute

SpecSelect == Init /\ [][NextSelect]_vars

-----------------------------------------------------------------------------
(* PlaylistGenerationEngine._determine_playlist_type on its own            *)

\* the keywords of the seven groups, in the order of the tests
Keywords ==
    <<{"journey", "adventure", "explore"}, {"energy", "pump", "motivate"},
      {"calm", "peaceful", "meditate"}, {"heal", "therapy", "comfort"},
      {"nostalgia", "memories", "classic"}, {"party", "dance", "celebrate"},
      {"maintain", "keep", "steady"}>>

\* request texts, as the keywords they contain: none, any one keyword, or one
\* keyword of each of two groups
RequestTexts ==
    {{}} \cup {{w} : w \in UNION {Keywords[g] : g \in 1..Len(Keywords)}}
         \cup {{v, w} : v \in {"journey", "energy", "calm", "heal"},
                        w \in {"meditate", "comfort", "classic", "party", "steady"}}

\* user emotions around the thresholds 0.4, 0.5 and 0.7
ThresholdEmotions ==
    {<<>>} \cup {[valence |-> v] : v \in {Tenths(3), Tenths(8)}}
           \cup {[arousal |-> a] : a \in {Tenths(3), Tenths(4)}}
           \cup {[valence |-> v, arousal |-> a] :
                    v \in {Tenths(3), Tenths(4), Tenths(5), Tenths(7), Tenths(8)},
                    a \in {Tenths(3), Tenths(4), Tenths(7), Tenths(8)}}

\* the engine classifies a request whose text is a str
DeterminePlaylistType ==
    /\ now < MaxProbes
    /\ \E text \in RequestTexts, user_emotion \in ThresholdEmotions :
          LET classified(user_request) ==
                  lastOp' = [op |-> "_determine_playlist_type", outcome |-> "returned",
                             user_request |-> user_request, user_emotion |-> user_emotion,
                             result |-> _determine_playlist_type(user_request, user_emotion)]
          IN  classified([text |-> [str |-> text]])
    /\ now' = now + 1
    /\ UNCHANGED <<playlist_cache, next_uuid, route, probe, tasks>>

NextClassify == DeterminePlaylistType

SpecClassify == Init /\ [][NextClassify]_vars

-----------------------------------------------------------------------------
(* MoodRoute.add_waypoint                                                  *)

\* list.sort(key=timestamp): stable, lowest timestamp first
sort_by_timestamp(points) ==
    LET n == Len(points)
        before(a, b) == \/ points[a].timestamp < points[b].timestamp
                        \/ /\ points[a].timestamp = points[b].timestamp
                           /\ a < b
        rank(a) == Cardinality({b \in 1..n : before(b, a)}) + 1
    IN  list([k \in 1..n |-> points[CHOOSE a \in 1..n : rank(a) = k]])

\* add_waypoint that leaves the new point at the end
add_waypoint_appended(r, point) == [r EXCEPT !.waypoints = Append(@, point)]

\* MoodRoute.add_waypoint
add_waypoint(r, point) == [r EXCEPT !.waypoints = sort_by_timestamp(Append(@, point))]

\* the routes to which callers add waypoints
WaypointRouteCalls ==
    {RouteCall(LowMood, <<>>, 30, p, "permitted") :
         p \in {<<>>, [complexity |-> [int |-> 0]], [complexity |-> [int |-> 1]],
                [emotional_arc |-> "wavy", complexity |-> [int |-> 5]]}} \cup
    {RouteCall(<<>>, <<>>, 30, <<>>, "rejected")}

\* the points callers add: at the timestamps 0, 0.25, 0.5 and 0.8, told apart by
\* their resonance
AddedPoints ==
    {EmotionalPoint(ts, Tenths(5), Tenths(5), Tenths(5), Tenths(5), r) :
         ts \in {0, 15, 30, 48}, r \in {0, Unit}}

\* a caller has the router build the route it will extend
BuildRoute ==
    /\ now < MaxProbes
    /\ \E call \in WaypointRouteCalls :
          /\ route' = <<create_emotional_route(call.user_emotion, call.target_emotion,
                                               call.duration_minutes, call.preferences,
                                               call.gate)>>
          /\ lastOp' = [op |-> "create_emotional_route", outcome |-> "returned",
                        args |-> call]
    /\ probe' = <<>>
    /\ now' = now + 1
    /\ UNCHANGED <<playlist_cache, next_uuid, tasks>>

\* the caller adds a waypoint to its route
AddWaypoint ==
    /\ now < MaxCalls
    /\ route # <<>>
    /\ \E point \in AddedPoints :
          /\ route' = <<add_waypoint(route[1], point)>>
          /\ lastOp' = [op |-> "add_waypoint", outcome |-> "returned", point |-> point,
                        waypoints |-> route[1].waypoints]
    /\ now' = now + 1
    /\ UNCHANGED <<playlist_cache, next_uuid, probe, tasks>>

NextWaypoints == BuildRoute \/ AddWaypoint

SpecWaypoints == Init /\ [][NextWaypoints]_vars

-----------------------------------------------------------------------------
(* Properties                                                              *)

\* every field of an EmotionalPoint within the range its declaration states
\* (emotional_routing.py lines 40-45)
InDeclaredRange(point) ==
    /\ point.valence >= 0 - Unit /\ point.valence <= Unit
    /\ \A f \in EmotionalFields \ {"valence"} : point[f] >= 0 /\ point[f] <= Unit

\* the values an emotion dict gives are within the declared ranges
EmotionInRange(emotion) ==
    \A f \in DOMAIN emotion :
        /\ emotion[f] <= Unit
        /\ emotion[f] >= (IF f = "valence" THEN 0 - Unit ELSE 0)

\* two points agree in every emotional field
SameFields(p, q) == \A f \in EmotionalFields : p[f] = q[f]

RouteInRange(r) ==
    /\ InDeclaredRange(r.start_point)
    /\ InDeclaredRange(r.end_point)
    /\ \A i \in 1..Len(r.waypoints) : InDeclaredRange(r.waypoints[i])

\* C1: every playlist that generate_playlist returns is in the cache under its own
\* id when the call returns, and adapt_playlist with an id that generate_playlist
\* returned never reports not-found.
C1_ReturnedPlaylistIsCached ==
    /\ lastOp.op = "generate_playlist" =>
           /\ lastOp.playlist.id \in DOMAIN playlist_cache
           /\ playlist_cache[lastOp.playlist.id] = lastOp.playlist
    /\ lastOp.op = "adapt_playlist" /\ lastOp.playlist_id < next_uuid =>
           lastOp.outcome # "ValueError"

\* C2: adapt_playlist with an id that is no key of the cache raises the not-found
\* error and leaves the cache as it was: the same keys, and every cached playlist
\* with the same play_history, tracks, route and updated_at.
C2_UnknownIdRaisesNotFound ==
    [][(lastOp'.op = "adapt_playlist" /\ lastOp'.playlist_id \notin DOMAIN playlist_cache)
       => /\ lastOp'.outcome = "ValueError"
          /\ DOMAIN playlist_cache' = DOMAIN playlist_cache
          /\ \A id \in DOMAIN playlist_cache :
                 /\ playlist_cache'[id].play_history = playlist_cache[id].play_history
                 /\ playlist_cache'[id].tracks = playlist_cache[id].tracks
                 /\ playlist_cache'[id].route = playlist_cache[id].route
                 /\ playlist_cache'[id].updated_at = playlist_cache[id].updated_at]_vars

\* an adaptation of an unknown id was refused while the cache held a playlist
C2_NotFoundBesideCachedPlaylist ==
    /\ lastOp.op = "adapt_playlist"
    /\ lastOp.outcome = "ValueError"
    /\ DOMAIN playlist_cache # {}

\* start and end at the same neutral point, no waypoints, arc stable, transition smooth
FlatRoute(r) ==
    /\ SameFields(r.start_point, NeutralPoint(0))
    /\ SameFields(r.end_point, r.start_point)
    /\ r.waypoints = <<>>
    /\ r.arc_type = "stable"
    /\ r.transition_style = "smooth"

\* the tracks are the first min(10, N) entries of the catalog, in catalog order, and
\* the route is flat
FallbackShape(playlist, available_tracks) ==
    /\ Len(playlist.tracks) = Min(10, Len(available_tracks))
    /\ \A j \in 1..Len(playlist.tracks) :
           /\ playlist.tracks[j].id = available_tracks[j].id
           /\ playlist.tracks[j].transition_notes = ""
    /\ FlatRoute(playlist.route)

\* the last call was a generate_playlist in which the router's route construction
\* raised, after the engine's gate permitted and the classification succeeded
RouteConstructionFailed ==
    /\ lastOp.op = "generate_playlist"
    /\ lastOp.gate = "permitted"
    /\ ~classification_raises(lastOp.args.user_request)
    /\ route_construction_raises(lastOp.args.preferences, lastOp.router_gate)

\* C3 as stated: generate_playlist returns, and when the ethics gate rejects, or
\* classification, route construction, track selection or duration repair fails,
\* what it returns is the fallback playlist (first min(10, N) catalog tracks, flat
\* route).
C3_FallbackOnAnyFailure ==
    lastOp.op = "generate_playlist" =>
        /\ lastOp.outcome = "returned"
        /\ (lastOp.gate = "rejected" \/ lastOp.caught # "" \/ RouteConstructionFailed)
               => FallbackShape(lastOp.playlist, lastOp.args.available_tracks)

\* C3, amended: generate_playlist returns, and when the engine's ethics gate
\* rejects, or classification, track selection or duration repair fails, what it
\* returns is the fallback playlist (first min(10, N) catalog tracks, flat route).
\* A failure of route construction is absorbed by the router: generation goes on
\* with the safe route of the requested duration, and if nothing else fails the
\* playlist it returns is the generated one, stored in the cache.
C3_FallbackOnEngineFailure ==
    lastOp.op = "generate_playlist" =>
        /\ lastOp.outcome = "returned"
        /\ (lastOp.gate = "rejected" \/ lastOp.caught # "")
               => FallbackShape(lastOp.playlist, lastOp.args.available_tracks)
        /\ (RouteConstructionFailed /\ lastOp.caught = "")
               => /\ FlatRoute(lastOp.playlist.route)
                  /\ lastOp.playlist.route.total_duration =
                         Get(lastOp.args.user_request, "duration_minutes", 60)
                  /\ lastOp.playlist.id \in DOMAIN playlist_cache
                  /\ lastOp.playlist.user_preferences = lastOp.args.preferences

\* track selection failed on a catalog of twelve, and the fallback took ten
C3_FallbackOfTenFromTwelve ==
    /\ lastOp.op = "generate_playlist"
    /\ lastOp.caught = "TypeError"
    /\ Len(lastOp.args.available_tracks) = 12
    /\ Len(lastOp.playlist.tracks) = 10

\* the route of the fixed neutral point, for the requested duration
SafeRouteShape(r, duration_minutes) ==
    /\ r.start_point = EmotionalPoint(0, Tenths(6), Tenths(5), Tenths(6), Tenths(5), Tenths(7))
    /\ r.end_point = EmotionalPoint(TimeUnit, Tenths(6), Tenths(5), Tenths(6), Tenths(5),
                                    Tenths(7))
    /\ r.waypoints = <<>>
    /\ r.arc_type = "stable"
    /\ r.transition_style = "smooth"
    /\ r.estimated_impact = Tenths(5)
    /\ r.total_duration = duration_minutes

\* C4: create_emotional_route returns also when its ethics gate rejects or an
\* exception is raised during route construction, and what it returns then is the
\* safe route: both ends at (0.6, 0.5, 0.6, 0.5, 0.7), timestamps 0.0 and 1.0, no
\* waypoints, stable, smooth, impact 0.5, total_duration the requested minutes.
C4_SafeRouteOnRejectionOrException ==
    lastOp.op = "create_emotional_route" =>
        /\ lastOp.outcome = "returned"
        /\ (\/ lastOp.args.gate = "rejected"
            \/ route_construction_raises(lastOp.args.preferences, lastOp.args.gate))
               => SafeRouteShape(route[1], lastOp.args.duration_minutes)

\* range() raised on a complexity that is a string, for a request of 45 minutes
C4_SafeRouteAfterTypeError ==
    /\ lastOp.op = "create_emotional_route"
    /\ lastOp.args.gate = "permitted"
    /\ lastOp.args.preferences = BadComplexity
    /\ lastOp.args.duration_minutes = 45
    /\ route[1].total_duration = 45

\* the last call built the route the caller holds, or probed it
OnRoute == lastOp.op \in {"create_emotional_route", "get_emotional_at"}

\* C5: a route built from user_emotion and target_emotion values within their
\* declared ranges has start_point, end_point and every waypoint within the
\* declared ranges, and so is every point get_emotional_at returns for it.
C5_PointsStayInRange ==
    (/\ OnRoute
     /\ EmotionInRange(lastOp.args.user_emotion)
     /\ EmotionInRange(lastOp.args.target_emotion))
        => /\ RouteInRange(route[1])
           /\ probe # <<>> => InDeclaredRange(probe[1])

\* C6: create_emotional_route given a user_emotion with a value out of its range, or
\* with a key missing, returns, and the route it returns has start_point, end_point
\* and every waypoint within the declared ranges.
C6_OutOfRangeInputIsClamped ==
    (/\ lastOp.op = "create_emotional_route"
     /\ \/ ~EmotionInRange(lastOp.args.user_emotion)
        \/ DOMAIN lastOp.args.user_emotion # EmotionalFields)
        => /\ lastOp.outcome = "returned"
           /\ RouteInRange(route[1])

\* C7: on a route with no waypoint at timestamp 0.0 or 1.0 (a route without
\* waypoints included), get_emotional_at(0.0) is start_point and
\* get_emotional_at(1.0) is end_point in every emotional field.
C7_EndsAreStartAndEnd ==
    (/\ lastOp.op = "get_emotional_at"
     /\ \A i \in 1..Len(route[1].waypoints) :
            route[1].waypoints[i].timestamp \notin {0, TimeUnit})
        => /\ lastOp.t = 0 => SameFields(probe[1], route[1].start_point)
           /\ lastOp.t = TimeUnit => SameFields(probe[1], route[1].end_point)

\* C8: user_emotion {valence 0.2, arousal 0.3}, no target, journey_type energizing,
\* 30 minutes: the end point has valence >= 0.2 and arousal >= 0.3, and the arc is
\* ascending or resolution.
C8_EnergizingScenario ==
    (/\ lastOp.op = "create_emotional_route"
     /\ lastOp.args = RouteCall(LowMood, <<>>, 30, [journey_type |-> "energizing"],
                                "permitted"))
        => /\ route[1].end_point.valence >= Tenths(2)
           /\ route[1].end_point.arousal >= Tenths(3)
           /\ route[1].arc_type \in {"ascending", "resolution"}

\* C9: for a start point within the declared ranges, the end point synthesized for
\* journey_type energizing (no target) has neither a lower valence nor a lower
\* arousal than the start point.
C9_EnergizingNeverLowers ==
    (/\ lastOp.op = "create_emotional_route"
     /\ lastOp.args.gate = "permitted"
     /\ DOMAIN lastOp.args.target_emotion = {}
     /\ Get(lastOp.args.preferences, "journey_type", "exploratory") = "energizing"
     /\ ComplexityIsInt(lastOp.args.preferences)
     /\ InDeclaredRange(route[1].start_point))
        => /\ route[1].end_point.valence >= route[1].start_point.valence
           /\ route[1].end_point.arousal >= route[1].start_point.arousal

\* the longest track of a list, in seconds (0 for no track)
LongestTrack(tracks) ==
    IF tracks = <<>> THEN 0
    ELSE CHOOSE d \in {tracks[j].duration : j \in 1..Len(tracks)} :
             \A j \in 1..Len(tracks) : tracks[j].duration <= d

\* C10: adapt_playlist with completion_rate feedback below 0.5 on a cached playlist
\* sets route.total_duration to 70% of what it was, and afterwards the summed
\* track duration is at most the new target, within one track's duration; with a
\* completion_rate of 0.5 or more the route and the tracks are unchanged.
C10_CompletionShrinksToSeventyPercent ==
    [][(/\ lastOp'.op = "adapt_playlist"
        /\ Get(lastOp'.feedback, "type", "") = "completion_rate"
        /\ lastOp'.playlist_id \in DOMAIN playlist_cache)
       => LET before == playlist_cache[lastOp'.playlist_id]
              after == playlist_cache'[lastOp'.playlist_id]
          IN  IF lastOp'.feedback.completion_rate < Tenths(5)
              THEN /\ lastOp'.outcome = "returned"
                   /\ 10 * after.route.total_duration = 7 * before.route.total_duration
                   /\ SumSeq([j \in 1..Len(after.tracks) |-> after.tracks[j].duration])
                          <= 60 * after.route.total_duration + LongestTrack(after.tracks)
              ELSE /\ lastOp'.outcome = "returned"
                   /\ after.route = before.route
                   /\ after.tracks = before.tracks]_vars


\* the summed duration of a track list, in seconds
TotalSeconds(tracks) == SumSeq([j \in 1..Len(tracks) |-> tracks[j].duration])

\* C11: _adjust_playlist_duration applied to any track list, any target and any
\* non-empty candidate pool returns, and the summed duration of the list it returns
\* is within one track's duration of the target, unless the pool was exhausted
\* while growing (every pool track is in the list) or one track remained while
\* shrinking.
C11_DurationRepairConverges ==
    (/\ lastOp.op = "_adjust_playlist_duration"
     /\ Len(lastOp.available_tracks) > 0)
        => /\ lastOp.outcome = "returned"
           /\ \/ Abs(TotalSeconds(lastOp.result) - 60 * lastOp.target_duration_minutes)
                     <= LongestTrack(lastOp.result \o lastOp.available_tracks)
              \/ /\ TotalSeconds(lastOp.result) < 60 * lastOp.target_duration_minutes
                 /\ \A j \in 1..Len(lastOp.available_tracks) :
                        \E k \in 1..Len(lastOp.result) :
                            lastOp.result[k] = lastOp.available_tracks[j]
              \/ /\ TotalSeconds(lastOp.result) > 60 * lastOp.target_duration_minutes
                 /\ Len(lastOp.result) = 1


\* the artist of a catalog record, as _create_playlist_track reads it
ArtistOf(track_data) == Get(track_data, "artist", "Unknown Artist")

\* the catalog can fill n places with no artist above the limit: the number of its
\* tracks that are among the first max_artist_tracks of their artist
EnoughArtists(available_tracks, max_artist_tracks, n) ==
    Cardinality({j \in 1..Len(available_tracks) :
                    Cardinality({k \in 1..(j - 1) :
                                    ArtistOf(available_tracks[k]) = ArtistOf(available_tracks[j])})
                        < max_artist_tracks}) >= n

\* C12: in the track list of the playlist generate_playlist returns after its
\* gate let track selection run, no artist occurs more than
\* preferences.max_artist_tracks times (default 2), whenever the catalog has
\* enough tracks of different artists to fill a list of that length within the
\* limit.
C12_ArtistLimitInOutput ==
    (lastOp.op = "generate_playlist" /\ lastOp.gate = "permitted")
        => LET tracks == lastOp.playlist.tracks
               max_artist_tracks == Get(lastOp.args.preferences, "max_artist_tracks", 2)
           IN  EnoughArtists(lastOp.args.available_tracks, max_artist_tracks, Len(tracks))
                   => \A j \in 1..Len(tracks) :
                          Cardinality({k \in 1..Len(tracks) :
                                          tracks[k].artist = tracks[j].artist})
                              <= max_artist_tracks


\* the step is an adapt_playlist call on an id the cache holds
AdaptsCached == lastOp'.op = "adapt_playlist" /\ lastOp'.playlist_id \in DOMAIN playlist_cache

\* C13: in every state reached by generate_playlist and adapt_playlist calls, the
\* total_duration field of every cached playlist, and of the playlist a
\* generate_playlist call returned, is the sum of the durations of its tracks.
C13_TotalDurationIsTrackSum ==
    /\ \A id \in DOMAIN playlist_cache :
           playlist_cache[id].total_duration = TotalSeconds(playlist_cache[id].tracks)
    /\ lastOp.op = "generate_playlist"
           => lastOp.playlist.total_duration = TotalSeconds(lastOp.playlist.tracks)

\* a playlist that holds a track has gone through a completion_rate adaptation
\* that shortened its route
C13_SumKeptAfterCompletionAdaptation ==
    /\ lastOp.op = "adapt_playlist"
    /\ lastOp.outcome = "returned"
    /\ Get(lastOp.feedback, "completion_rate", Unit) < Tenths(5)
    /\ playlist_cache[lastOp.playlist_id].tracks # <<>>
    /\ playlist_cache[lastOp.playlist_id].total_duration
           > 60 * playlist_cache[lastOp.playlist_id].route.total_duration

\* C14: adapt_playlist with skip_frequency feedback returns, and afterwards every
\* track whose reported skip rate is above 0.7 has been replaced, in its position,
\* by another track, and every other track is where it was.
C14_SkippedTracksReplaced ==
    [][(AdaptsCached /\ Get(lastOp'.feedback, "type", "") = "skip_frequency")
       => LET before == playlist_cache[lastOp'.playlist_id].tracks
              after == playlist_cache'[lastOp'.playlist_id].tracks
              skip_data == Get(lastOp'.feedback, "skip_data", <<>>)
          IN  /\ lastOp'.outcome = "returned"
              /\ Len(after) = Len(before)
              /\ \A j \in 1..Len(before) :
                     IF Get(skip_data, before[j].id, 0) > Tenths(7)
                     THEN after[j].id # before[j].id
                     ELSE after[j] = before[j]]_vars


\* the tracks of after are tracks of before
TracksAmong(after, before) ==
    \A j \in 1..Len(after) : \E k \in 1..Len(before) : after[j].id = before[k].id

\* C15: adapt_playlist with emotional_response feedback whose overall_satisfaction
\* is below 0.4 returns with the route replaced by a new one that starts at the
\* reported current_state, ends at a synthesized end point and keeps
\* route.total_duration, and with tracks re-selected among the tracks the playlist
\* held; with a satisfaction of 0.4 or more it returns with route and tracks as
\* they were.  (Stated for a permitting router gate and usable preferences: the
\* router answers the other cases with its safe route.)
C15_LowSatisfactionReroutes ==
    [][(/\ AdaptsCached
        /\ Get(lastOp'.feedback, "type", "") = "emotional_response"
        /\ lastOp'.router_gate = "permitted"
        /\ ComplexityIsInt(playlist_cache[lastOp'.playlist_id].user_preferences))
       => LET before == playlist_cache[lastOp'.playlist_id]
              after == playlist_cache'[lastOp'.playlist_id]
              emotional_response == Get(lastOp'.feedback, "emotional_response", <<>>)
              sp == start_point_of(Get(emotional_response, "current_state", <<>>))
          IN  IF Get(emotional_response, "overall_satisfaction", Tenths(5)) < Tenths(4)
              THEN /\ lastOp'.outcome = "returned"
                   /\ after.route.start_point = sp
                   /\ after.route.end_point
                          = _generate_meaningful_endpoint(sp, before.user_preferences)
                   /\ after.route.total_duration = before.route.total_duration
                   /\ TracksAmong(after.tracks, before.tracks)
              ELSE /\ lastOp'.outcome = "returned"
                   /\ after.route = before.route
                   /\ after.tracks = before.tracks]_vars

\* C16: every adapt_playlist call on a cached id appends one entry that carries
\* the given feedback to the play_history of that playlist, whatever the feedback
\* type and whatever the outcome of the adaptation, and no step removes, reorders
\* or alters the entries a play_history already holds.
C16_HistoryAppendOnly ==
    [][\A id \in DOMAIN playlist_cache :
          /\ id \in DOMAIN playlist_cache'
          /\ LET before == playlist_cache[id].play_history
                 after == playlist_cache'[id].play_history
             IN  IF AdaptsCached /\ lastOp'.playlist_id = id
                 THEN /\ Len(after) = Len(before) + 1
                      /\ SubSeq(after, 1, Len(before)) = before
                      /\ after[Len(after)].feedback = lastOp'.feedback
                 ELSE after = before]_vars

\* a playlist has recorded two feedbacks of different types, the second by a call
\* whose adaptation raised
C16_TwoEntriesSecondAfterRaise ==
    /\ lastOp.op = "adapt_playlist"
    /\ lastOp.outcome \notin {"returned", "ValueError"}
    /\ LET history == playlist_cache[lastOp.playlist_id].play_history
       IN  /\ Len(history) = 2
           /\ history[2].feedback = lastOp.feedback
           /\ "type" \notin DOMAIN history[1].feedback

\* the adaptation types adapt_playlist acts on (lines 476-481)
AdaptationTypes == {"skip_frequency", "emotional_response", "completion_rate"}

\* C17: adapt_playlist with a feedback whose type is none of skip_frequency,
\* emotional_response and completion_rate, or with no type, returns and leaves
\* every field of the playlist but play_history and updated_at as it was, tracks,
\* route and total_duration among them.
C17_OtherTypesOnlyRecorded ==
    [][(AdaptsCached /\ Get(lastOp'.feedback, "type", "") \notin AdaptationTypes)
       => LET before == playlist_cache[lastOp'.playlist_id]
              after == playlist_cache'[lastOp'.playlist_id]
          IN  /\ lastOp'.outcome = "returned"
              /\ \A f \in DOMAIN before \ {"play_history", "updated_at"} :
                     after[f] = before[f]
              /\ after.play_history # before.play_history
              /\ after.updated_at = now]_vars

\* a playlist that holds a track has taken a feedback of an unknown type after an
\* earlier adaptation
C17_UnknownTypeOnAdaptedPlaylist ==
    /\ lastOp.op = "adapt_playlist"
    /\ lastOp.outcome = "returned"
    /\ Get(lastOp.feedback, "type", "") = "liked"
    /\ LET playlist == playlist_cache[lastOp.playlist_id]
       IN  /\ playlist.tracks # <<>>
           /\ Len(playlist.play_history) = 2
           /\ playlist.updated_at > playlist.created_at


RECURSIVE SlotsInOrder(_)
SlotsInOrder(S) ==
    IF S = {} THEN <<>>
    ELSE LET k == CHOOSE a \in S : \A b \in S : a <= b
         IN  <<k>> \o SlotsInOrder(S \ {k})

\* the fitness route_to_tracks gives each catalog entry on the route
FitnessOnRoute(r, available_tracks) ==
    [i \in 1..Len(available_tracks) |->
        _calculate_track_fitness(
            _extract_track_emotion(available_tracks[i]),
            get_emotional_at(r, ((i - 1) * TimeUnit) \div Max(1, Len(available_tracks) - 1)),
            r.transition_style)]

\* C19: route_to_tracks returns at most 11 tracks, each an entry of
\* available_tracks and none twice, and nothing for an empty catalog; the
\* returned tracks are the choices of slots k/10 taken in rising order, where
\* the track of a slot is an entry not chosen by an earlier slot, at a catalog
\* position i/(N-1) within 0.15 of the slot, whose fitness x (1 - position gap)
\* no unchosen entry closer than 0.15 to the slot exceeds, and where a slot
\* chooses nothing only when no unchosen entry is closer than 0.15 to it.
C19_SlotsChooseBestNearbyUnused ==
    lastOp.op = "route_to_tracks" =>
        LET tracks == lastOp.available_tracks
            result == lastOp.result
            scale == Max(1, Len(tracks) - 1)
            gap(i, k) == Abs(10 * (i - 1) - k * scale)
            closer(i, k) == 20 * gap(i, k) < 3 * 10 * scale
            within(i, k) == 20 * gap(i, k) <= 3 * 10 * scale
            chosen(fit, index, slots) ==
                /\ \A m \in 1..Len(result) :
                      /\ within(index[m], slots[m])
                      /\ \A j \in (1..Len(tracks)) \ {index[n] : n \in 1..(m - 1)} :
                            closer(j, slots[m])
                            => fit[j] * (10 * scale - gap(j, slots[m]))
                                   <= fit[index[m]] * (10 * scale - gap(index[m], slots[m]))
                /\ \A k \in (0..10) \ {slots[m] : m \in 1..Len(result)} :
                      \A j \in (1..Len(tracks)) \ {index[n] : n \in {m \in 1..Len(result) : slots[m] < k}} :
                          ~closer(j, k)
            by_slots(fit, index) ==
                \E S \in SUBSET (0..10) :
                    /\ Cardinality(S) = Len(result)
                    /\ chosen(fit, index, SlotsInOrder(S))
        IN  /\ Len(result) <= 11
            /\ \A m \in 1..Len(result) : \E i \in 1..Len(tracks) : tracks[i] = result[m]
            /\ \A m \in 1..Len(result), n \in 1..Len(result) :
                  m # n => result[m] # result[n]
            /\ (tracks = <<>> => result = <<>>)
            /\ by_slots(FitnessOnRoute(lastOp.route, tracks),
                        [m \in 1..Len(result) |->
                            CHOOSE i \in 1..Len(tracks) : tracks[i] = result[m]])

\* C19 witness: from a catalog of 13 tracks the router returned 10: slots were
\* left empty although three tracks were never chosen, and the track of the
\* first slot is not the first of the catalog.
C19_TenOfThirteen ==
    /\ lastOp.op = "route_to_tracks"
    /\ Len(lastOp.available_tracks) = 13
    /\ Len(lastOp.result) = 10
    /\ lastOp.result[1] # lastOp.available_tracks[1]


C21_DistanceIsSymmetricAndFourDimensional ==
    lastOp.op = "distance_to" =>
        LET a == lastOp.self
            b == lastOp.other
            same_place ==
                \A f \in {"valence", "arousal", "dominance", "depth"} : a[f] = b[f]
        IN  /\ lastOp.result = distance_to(b, a)
            /\ distance_to(a, a) = 0
            /\ (same_place => lastOp.result = 0)
            /\ \A r \in {0, Tenths(5), Unit}, ts \in {0, TimeUnit} :
                  /\ distance_to([a EXCEPT !.resonance = r, !.timestamp = ts], b)
                         = lastOp.result
                  /\ distance_to(a, [b EXCEPT !.resonance = r, !.timestamp = ts])
                         = lastOp.result

\* C21 witness: two different points, which differ in resonance and timestamp
\* only, were measured at distance 0.
C21_ZeroAcrossResonance ==
    /\ lastOp.op = "distance_to"
    /\ lastOp.self # lastOp.other
    /\ lastOp.self.resonance # lastOp.other.resonance
    /\ lastOp.self.timestamp # lastOp.other.timestamp
    /\ lastOp.result = 0


\* C22: when duration repair shrinks a list that is over its target, the first
\* and the last track of the input are the first and the last track of the
\* result.
C22_ShrinkKeepsFirstAndLast ==
    (/\ lastOp.op = "_adjust_playlist_duration"
     /\ lastOp.outcome = "returned"
     /\ Len(lastOp.tracks) >= 1
     /\ duration_minutes_of(lastOp.tracks) > lastOp.target_duration_minutes)
        => /\ Len(lastOp.result) >= 1
           /\ lastOp.result[1] = lastOp.tracks[1]
           /\ lastOp.result[Len(lastOp.result)] = lastOp.tracks[Len(lastOp.tracks)]


\* the notes _generate_transition_notes can write
TransitionNotes ==
    {<<mood_change, energy_change>> :
         mood_change \in {"lifting", "deepening", "maintaining"},
         energy_change \in {"energizing", "calming", "steady"}}

\* C23: selecting a track for a second or later route point never makes
\* _select_tracks_for_route fail, and in what it returns the first track has
\* empty transition_notes and every later track carries one of the notes
\* "<lifting|deepening|maintaining> and <energizing|calming|steady> transition".
C23_LaterTracksCarryTransitionNotes ==
    lastOp.op = "_select_tracks_for_route" =>
        /\ lastOp.outcome \notin {"TypeError", "IndexError"}
        /\ lastOp.outcome = "returned" =>
              \A j \in 1..Len(lastOp.result) :
                  IF j = 1 THEN lastOp.result[j].transition_notes = ""
                  ELSE lastOp.result[j].transition_notes \in TransitionNotes


\* C24: a route built by create_emotional_route (request permitted, integer
\* complexity) has the arc preferences.emotional_arc names when that is a valid
\* arc, and otherwise the arc of the ordered rules on dv and da: both above 0.3
\* ascending, both below -0.3 descending, both magnitudes below 0.1 stable,
\* either above 0.3 resolution, anything else wavy.
C24_ArcFollowsOrderedRules ==
    (/\ lastOp.op = "create_emotional_route"
     /\ lastOp.args.gate = "permitted"
     /\ ComplexityIsInt(lastOp.args.preferences))
        => LET preferred_arc == Get(lastOp.args.preferences, "emotional_arc", "")
               sp == route[1].start_point
               ep == route[1].end_point
               up(f, k) == FloatDiffAbove(ep[f], sp[f], k)
               down(f, k) == FloatDiffBelow(ep[f], sp[f], k)
               flat(f, k) == FloatAbsDiffUnder(ep[f], sp[f], k)
           IN  route[1].arc_type =
                   IF preferred_arc \in EmotionalArcValues THEN preferred_arc
                   ELSE IF up("valence", 3) /\ up("arousal", 3) THEN "ascending"
                   ELSE IF down("valence", 3) /\ down("arousal", 3) THEN "descending"
                   ELSE IF flat("valence", 1) /\ flat("arousal", 1) THEN "stable"
                   ELSE IF up("valence", 3) \/ up("arousal", 3) THEN "resolution"
                   ELSE "wavy"


\* C25: for a request whose text is a str, the playlist type is that of the
\* first keyword group, in the order discovery_expedition, energy_building,
\* contemplative_dive, healing_session, nostalgic_voyage, ecstatic_release,
\* mood_maintenance, of which the text contains a keyword; the valence and
\* arousal thresholds decide only when the text contains no keyword; and the
\* result is always one of the eight types.
C25_FirstKeywordGroupWins ==
    lastOp.op = "_determine_playlist_type" =>
        LET text == lastOp.user_request.text.str
            types == <<"discovery_expedition", "energy_building", "contemplative_dive",
                       "healing_session", "nostalgic_voyage", "ecstatic_release",
                       "mood_maintenance">>
            found == {g \in 1..7 : text \cap Keywords[g] # {}}
            valence == Get(lastOp.user_emotion, "valence", Tenths(5))
            arousal == Get(lastOp.user_emotion, "arousal", Tenths(5))
        IN  /\ lastOp.result \in {types[g] : g \in 1..7} \cup {"emotional_journey"}
            /\ \A g \in found : (\A h \in found : g <= h) => lastOp.result = types[g]
            /\ found = {} =>
                  /\ (valence < Tenths(4) /\ arousal < Tenths(4))
                         => lastOp.result = "healing_session"
                  /\ (valence > Tenths(7) /\ arousal > Tenths(7))
                         => lastOp.result = "ecstatic_release"
                  /\ (/\ ~(valence < Tenths(4) /\ arousal < Tenths(4))
                      /\ (valence < Tenths(5) \/ arousal < Tenths(4)))
                         => lastOp.result = "contemplative_dive"
                  /\ (/\ valence >= Tenths(5) /\ arousal >= Tenths(4)
                      /\ ~(valence > Tenths(7) /\ arousal > Tenths(7)))
                         => lastOp.result = "emotional_journey"

\* C25 witness: a text with a keyword of the third and of the sixth group, from
\* a user whose valence and arousal are above 0.7, was classified by the third
\* group.
C25_CalmBeforeParty ==
    /\ lastOp.op = "_determine_playlist_type"
    /\ lastOp.user_request.text.str = {"calm", "party"}
    /\ Get(lastOp.user_emotion, "valence", 0) > Tenths(7)
    /\ Get(lastOp.user_emotion, "arousal", 0) > Tenths(7)
    /\ lastOp.result = "contemplative_dive"


\* C26: a route built by create_emotional_route (request permitted) with an
\* integer preferences.complexity n >= 0, 3 when absent, has exactly n
\* waypoints; waypoint i has timestamp i/(n+1), strictly between 0 and 1, and
\* its valence is in [-1, 1] and its arousal, dominance, depth and resonance are
\* in [0, 1], for every arc type.
C26_WaypointsEvenlySpacedAndClamped ==
    (/\ lastOp.op = "create_emotional_route"
     /\ lastOp.args.gate = "permitted"
     /\ ComplexityIsInt(lastOp.args.preferences)
     /\ Get(lastOp.args.preferences, "complexity", [int |-> 3]).int >= 0)
        => LET n == Get(lastOp.args.preferences, "complexity", [int |-> 3]).int
               waypoints == route[1].waypoints
           IN  /\ Len(waypoints) = n
               /\ \A i \in 1..Len(waypoints) :
                     /\ waypoints[i].timestamp * (n + 1) = i * TimeUnit
                     /\ 0 < waypoints[i].timestamp
                     /\ waypoints[i].timestamp < TimeUnit
                     /\ 0 - Unit <= waypoints[i].valence
                     /\ waypoints[i].valence <= Unit
                     /\ \A f \in {"arousal", "dominance", "depth", "resonance"} :
                           0 <= waypoints[i][f] /\ waypoints[i][f] <= Unit

\* C26 witness: a wavy route with five waypoints, one of which has valence 1.0
\* where the line between start and end plus the sinusoidal offset is above 1.0.
C26_WavyOffsetClamped ==
    /\ lastOp.op = "create_emotional_route"
    /\ lastOp.args.gate = "permitted"
    /\ route[1].arc_type = "wavy"
    /\ Len(route[1].waypoints) = 5
    /\ \E i \in 1..5 :
          /\ route[1].waypoints[i].valence = Unit
          /\ route[1].start_point.valence
                 + (i * (route[1].end_point.valence - route[1].start_point.valence)) \div 6
                 + wave_offset(i, 5) > Unit


\* C27: the waypoints of a route built by create_emotional_route, and of that
\* route after any number of add_waypoint calls, are in non-decreasing timestamp
\* order; add_waypoint keeps the waypoints it found in their order and puts the
\* new point after every waypoint whose timestamp is not above its own, so that
\* waypoints of equal timestamp stay in the order of their insertion.
C27_WaypointsSortedAndStable ==
    route # <<>> =>
        LET waypoints == route[1].waypoints
        IN  /\ \A i \in 1..Len(waypoints), j \in 1..Len(waypoints) :
                  i < j => waypoints[i].timestamp <= waypoints[j].timestamp
            /\ lastOp.op = "add_waypoint" =>
                  \E k \in 0..Len(lastOp.waypoints) :
                      /\ waypoints = SubSeq(lastOp.waypoints, 1, k) \o <<lastOp.point>>
                                         \o SubSeq(lastOp.waypoints, k + 1,
                                                   Len(lastOp.waypoints))
                      /\ \A j \in 1..k :
                            lastOp.waypoints[j].timestamp <= lastOp.point.timestamp
                      /\ \A j \in (k + 1)..Len(lastOp.waypoints) :
                            lastOp.waypoints[j].timestamp > lastOp.point.timestamp

\* C27 witness: the point just added has the timestamp of the waypoint before
\* it, which is a different point added earlier, and a waypoint with a higher
\* timestamp follows it.
C27_EqualTimestampsInInsertionOrder ==
    /\ route # <<>>
    /\ lastOp.op = "add_waypoint"
    /\ \E i \in 2..(Len(route[1].waypoints) - 1) :
          /\ route[1].waypoints[i] = lastOp.point
          /\ route[1].waypoints[i - 1] # lastOp.point
          /\ route[1].waypoints[i - 1].timestamp = lastOp.point.timestamp
          /\ route[1].waypoints[i - 1].resonance # lastOp.point.resonance
          /\ route[1].waypoints[i + 1].timestamp > lastOp.point.timestamp


\* C28: an adapt_playlist call on a cached playlist that raises while it runs
\* its adaptation branch leaves the route, the tracks, the play_history and
\* updated_at of the cached playlist as they were before the call.
C28_FailedAdaptationChangesNothing ==
    [][(/\ AdaptsCached
        /\ lastOp'.outcome \notin {"returned", "ValueError"})
       => LET before == playlist_cache[lastOp'.playlist_id]
              after == playlist_cache'[lastOp'.playlist_id]
          IN  /\ after.route = before.route
              /\ after.tracks = before.tracks
              /\ after.play_history = before.play_history
              /\ after.updated_at = before.updated_at]_vars


C30_NoTrackIdTwice ==
    [][LET pairwise_distinct(tracks) ==
               \A j, k \in 1..Len(tracks) : tracks[j].id = tracks[k].id => j = k
       IN  /\ (lastOp'.op = "generate_playlist"
                  /\ pairwise_distinct(lastOp'.args.available_tracks))
                  => /\ pairwise_distinct(lastOp'.playlist.tracks)
                     /\ \A id \in DOMAIN playlist_cache' \ DOMAIN playlist_cache :
                            pairwise_distinct(playlist_cache'[id].tracks)
           /\ (AdaptsCached
                  /\ pairwise_distinct(playlist_cache[lastOp'.playlist_id].tracks))
                  => pairwise_distinct(playlist_cache'[lastOp'.playlist_id].tracks)]_vars

\* a playlist of ten tracks with ten ids, returned for a catalog of twelve ids
C30_TenIdsFromTwelve ==
    /\ lastOp.op = "generate_playlist"
    /\ Len(lastOp.args.available_tracks) = 12
    /\ Cardinality({lastOp.args.available_tracks[j].id : j \in 1..12}) = 12
    /\ Len(lastOp.playlist.tracks) = 10
    /\ Cardinality({lastOp.playlist.tracks[j].id : j \in 1..10}) = 10

====
